---- MODULE Spec2Model ----
(***************************************************************************)
(* A model of four parts of gatling: the cgpu resource stores and command  *)
(* recording (src/src/cgpu/src), the render pass of the Hydra delegate     *)
(* (src/src/hdGatling/RenderPass.cpp), the scene writer of the             *)
(* preprocessor (gp_write_scene) and the CWBVH traversal kernel.           *)
(* Each part has its own specification over the shared variables; a part   *)
(* that a specification does not exercise stays in its initial state.      *)
(***************************************************************************)
EXTENDS Integers, Sequences, FiniteSets, TLC

VARIABLES
  \* ---- resource store (resource_store.c, handle store) ----
  versions,       \* handle_store.versions: generation of slot i at versions[i+1]
  max_index,      \* handle_store.max_index: number of slots ever handed out
  free_indices,   \* handle_store.free_indices: stack of freed slot indices
  object_count,   \* resource_store.object_count: capacity of the slab, in items
  live,           \* history: handles created and not yet freed
  freed,          \* history: every handle ever passed to free
  lastCreate,     \* handle returned by the latest create (0-1 element sequence)
  lastGet,        \* the latest resource_store_get: handle, result, index
  \* ---- resources of cgpu (cgpu.c): one resource store per kind ----
  stores,         \* the handle store of every kind's resource store
  objects,        \* the slab of every store: objects[kind][index + 1]
  natives,        \* the native (Vulkan, VMA) objects that exist
  issued,         \* history: the handles the create calls returned, with kind
  destroyed,      \* history: <<operation, handle>> of every successful destroy
  doubleRelease,  \* history: a native object was released a second time
  lastOp,         \* the latest call: operation, arguments, result
  calls,          \* number of calls so far
  map_count,      \* VMA's count of outstanding mappings of every allocation
  \* ---- command recording (cgpu.c) ----
  reflection,     \* cgpu_ishader.reflection.bindings of the pipeline's shader
  iimage,         \* cgpu_iimage.layout and .access_mask of every image
  commands,       \* what was recorded into the Vulkan command buffer, in order
  descriptor_set, \* the writes of the latest vkUpdateDescriptorSets
  lastUpdate,     \* history of the latest cgpu_cmd_update_bindings: what its
                  \* arguments lacked, whether it called vkUpdateDescriptorSets
  lastCall,       \* the latest cgpu_cmd_* call: arguments, result, image state
  lastTimestamps, \* the arguments of the latest cgpu_cmd_copy_timestamps
  \* ---- render pass (hdGatling/RenderPass.cpp) ----
  tracker,        \* the change counters of the render index and the delegate
  m_last,         \* m_lastSceneStateVersion, ..., m_lastAovId
  m_shaderCache,  \* 0 is nullptr, otherwise the number of the cache
  m_geomCache,    \* 0 is nullptr, otherwise the number of the cache
  m_isConverged,
  gi,             \* the gi library: framebuffer samples, caches made and destroyed
  frame,          \* the latest _Execute: what it saw and the gi calls it made
  \* ---- scene file writer (gp_write_scene) ----
  scene,          \* gp_scene: counts and contents, in 32-bit words
  options,        \* program_options: image_width, image_height
  heap,           \* the word fresh malloc memory happens to hold
  file,           \* the words gp_write_file was given; <<>> before the write
  loop_scene,     \* a scene given by its counts only, for the vertex loop alone
  loop_i,         \* the latest iteration of the vertex loop followed; -1: none
  loop_written,   \* which vertex the followed iterations left at which word
  \* ---- BVH traversal kernel ----
  build,          \* how the kernel was compiled: NaN handling of min/max, postponing
  bvh_nodes,      \* the compressed wide BVH; bvh_nodes[1] is the root
  faces,          \* vertex indices of every face
  vertices,       \* vertex positions
  ray,            \* origin, dir and the current tmax
  ray0,           \* the ray as the caller passed it
  hit,            \* hit.face_idx
  node_group,     \* x: child base index, y: bit mask, as the set of its bits
  face_group,     \* x: face base index, y: bit mask, as the set of its bits
  stack,          \* stack[0 .. stack_size - 1]
  pc,             \* where the invocation is in find_hit_closest
  postponed,      \* how often the invocation postponed its faces
  query,          \* the function invoked: "closest" or "any"
  returned,       \* the value the function returned, once pc = "done"
  overflowed,     \* history: a write to stack[stack_size] left the array
  resumed         \* history: how many postponed face groups were popped again

storeVars == <<versions, max_index, free_indices, object_count, live, freed,
               lastCreate, lastGet>>

resVars == <<stores, objects, natives, issued, destroyed, doubleRelease, lastOp,
             calls, map_count>>

cmdVars == <<reflection, iimage, commands, descriptor_set, lastUpdate, lastCall,
             lastTimestamps>>

passVars == <<tracker, m_last, m_shaderCache, m_geomCache, m_isConverged, gi, frame>>

sceneVars == <<scene, options, heap, file, loop_scene, loop_i, loop_written>>

bvhVars == <<build, bvh_nodes, faces, vertices, ray, ray0, hit, node_group,
             face_group, stack, pc, postponed, query, returned, overflowed,
             resumed>>

vars == <<storeVars, resVars, cmdVars, passVars, sceneVars, bvhVars>>

(***************************************************************************)
(* Bounds of the model.                                                    *)
(***************************************************************************)
MaxSlots == 2
MaxGen == 3
NumImages == 2
MaxCommands == 3
MaxVersion == 1
MaxCaches == 4
MaxCount == 2
MaxPostpones == 2
MAX_STACK_SIZE == 2
MaxCalls == 5
MaxUpdates == 2
MaxItems == 3

(***************************************************************************)
(* Handle store.  A handle is 64 bits wide: a 32-bit slot index and a       *)
(* 30-bit generation.  The model keeps a handle as the pair of these two   *)
(* fields.                                                                 *)
(***************************************************************************)
GenMod == 1073741824
InitialCapacity == 1

MakeHandle(version, index) == [index |-> index, version |-> version % GenMod]

handle_store_get_index(handle) == handle.index

handle_store_get_version(handle) == handle.version

handle_store_is_handle_valid(handle) ==
  LET index == handle_store_get_index(handle)
      version == handle_store_get_version(handle)
  IN  /\ index < max_index
      /\ \A k \in 1..Len(free_indices) : free_indices[k] # index
      /\ versions[index + 1] = version

\* generation of a slot after a free
BumpVersion(v) == (v + 1) % GenMod

\* handle_store_create_handle: <<index, version, versions', max_index', free'>>
handle_store_create_handle ==
  IF Len(free_indices) > 0
  THEN LET index == free_indices[Len(free_indices)]
       IN  [index |-> index, version |-> versions[index + 1],
            versions |-> versions, max_index |-> max_index,
            free_indices |-> SubSeq(free_indices, 1, Len(free_indices) - 1)]
  ELSE [index |-> max_index, version |-> 1,
        versions |-> Append(versions, 1), max_index |-> max_index + 1,
        free_indices |-> free_indices]

\* handle_store_free_handle: <<versions', free'>>
handle_store_free_handle(handle) ==
  LET index == handle_store_get_index(handle)
  IN  [versions |-> [versions EXCEPT ![index + 1] = BumpVersion(@)],
       free_indices |-> Append(free_indices, index)]

(***************************************************************************)
(* Resource store.                                                         *)
(***************************************************************************)
\* resource_store_get without its validity test
resource_store_get_unchecked(handle) ==
  LET index == handle_store_get_index(handle)
  IN  [ok |-> TRUE, index |-> index,
       object_count |-> IF index >= object_count
                        THEN object_count * 2 ELSE object_count]

\* resource_store_get: result, slot index of the object, object_count afterwards
resource_store_get(handle) ==
  IF ~handle_store_is_handle_valid(handle)
  THEN [ok |-> FALSE, index |-> 0, object_count |-> object_count]
  ELSE LET index == handle_store_get_index(handle)
       IN  [ok |-> TRUE, index |-> index,
            object_count |-> IF index >= object_count
                             THEN object_count * 2 ELSE object_count]

HandleUniverse ==
  {MakeHandle(v, i) : v \in 0..(MaxGen + 1), i \in 0..MaxSlots}

NoGet == [handle |-> MakeHandle(0, 0), ok |-> FALSE, index |-> 0, wasLive |-> FALSE]

StoreInit ==
  /\ versions = <<>>
  /\ max_index = 0
  /\ free_indices = <<>>
  /\ object_count = InitialCapacity
  /\ live = {}
  /\ freed = {}
  /\ lastCreate = <<>>
  /\ lastGet = NoGet

\* resource_store_create_handle, in a store followed up to the given slots
CreateHandleWithin(slots) ==
  /\ (Len(free_indices) > 0 \/ max_index < slots)
  /\ LET r == handle_store_create_handle
         h == MakeHandle(r.version, r.index)
     IN  /\ versions' = r.versions
         /\ max_index' = r.max_index
         /\ free_indices' = r.free_indices
         /\ live' = live \cup {h}
         /\ lastCreate' = <<h>>
  /\ UNCHANGED <<object_count, freed, lastGet>>
  /\ UNCHANGED <<resVars, cmdVars, passVars, sceneVars, bvhVars>>

\* resource_store_create_handle
CreateHandle == CreateHandleWithin(MaxSlots)

\* resource_store_free_handle, called as cgpu_destroy_* and the failure paths
\* of cgpu_create_* call it: with a handle that resolves
FreeHandle(h) ==
  /\ handle_store_is_handle_valid(h)
  /\ versions[handle_store_get_index(h) + 1] < MaxGen
  /\ LET r == handle_store_free_handle(h)
     IN  /\ versions' = r.versions
         /\ free_indices' = r.free_indices
  /\ live' = live \ {h}
  /\ freed' = freed \cup {h}
  /\ UNCHANGED <<max_index, object_count, lastCreate, lastGet>>
  /\ UNCHANGED <<resVars, cmdVars, passVars, sceneVars, bvhVars>>

\* resource_store_get (CGPU_RESOLVE_HANDLE) on any handle value
GetHandle(h) ==
  /\ LET r == resource_store_get(h)
     IN  /\ lastGet' = [handle |-> h, ok |-> r.ok, index |-> r.index,
                        wasLive |-> h \in live]
         /\ object_count' = r.object_count
  /\ UNCHANGED <<versions, max_index, free_indices, live, freed, lastCreate>>
  /\ UNCHANGED <<resVars, cmdVars, passVars, sceneVars, bvhVars>>

StoreNext ==
  \/ CreateHandle
  \/ \E h \in HandleUniverse : FreeHandle(h)
  \/ \E h \in HandleUniverse : GetHandle(h)

\* the same calls on a store of up to MaxItems slots, the first size at
\* which a slot can lie beyond twice the initial capacity
SlabHandles ==
  {MakeHandle(v, i) : v \in 0..(MaxGen + 1), i \in 0..MaxItems}

SlabNext ==
  \/ CreateHandleWithin(MaxItems)
  \/ \E h \in SlabHandles : FreeHandle(h)
  \/ \E h \in SlabHandles : GetHandle(h)


(***************************************************************************)
(* Resources of cgpu.  Every kind of resource has a resource store of its   *)
(* own; a handle is the index and generation its store handed out, and the  *)
(* typed wrappers (cgpu_device, cgpu_buffer, ...) all hold just that value. *)
(* A call is given handles together with the kind of the create call that   *)
(* returned them, which is history: the code sees the value only.           *)
(***************************************************************************)
ResKinds == {"device", "buffer", "image", "command_buffer"}

EmptyStore == [versions |-> <<>>, max_index |-> 0, free_indices |-> <<>>]

\* handle_store_is_handle_valid on the handle store s
is_handle_valid(s, handle) ==
  /\ handle.index < s.max_index
  /\ \A k \in 1..Len(s.free_indices) : s.free_indices[k] # handle.index
  /\ s.versions[handle.index + 1] = handle.version

\* handle_store_create_handle on s: the handle and the store afterwards
create_handle(s) ==
  IF Len(s.free_indices) > 0
  THEN LET index == s.free_indices[Len(s.free_indices)]
       IN  [handle |-> MakeHandle(s.versions[index + 1], index),
            store |-> [s EXCEPT !.free_indices = SubSeq(@, 1, Len(@) - 1)]]
  ELSE [handle |-> MakeHandle(1, s.max_index),
        store |-> [s EXCEPT !.versions = Append(@, 1), !.max_index = @ + 1]]

\* handle_store_free_handle that leaves the generation of the slot as it is
free_handle_same_version(s, handle) ==
  [s EXCEPT !.free_indices = Append(@, handle.index)]

\* handle_store_free_handle on s
free_handle(s, handle) ==
  [s EXCEPT !.versions[handle.index + 1] = BumpVersion(@),
            !.free_indices = Append(@, handle.index)]

\* the object of a slot is written through the pointer resource_store_get gave
PutObject(slab, index, object) ==
  IF index < Len(slab) THEN [slab EXCEPT ![index + 1] = object]
  ELSE Append(slab, object)

NullHandle == [kind |-> "none", handle |-> MakeHandle(0, 0)]
Typed(kind, handle) == [kind |-> kind, handle |-> handle]

\* the handle values a caller can pass: what a create call returned, or null
CallerHandles == issued \cup {NullHandle}

InvalidHandle == "invalid resource handle"

\* the number of handles of the handle store s that are allocated
Allocated(s) == s.max_index - Len(s.free_indices)

NoOp ==
  [op |-> "none", expects |-> <<>>, args |-> <<>>, resolved |-> <<>>,
   ok |-> FALSE, err |-> "", second |-> FALSE, released |-> FALSE,
   allocated |-> [k \in ResKinds |-> 0]]

Returned(op, expects, args, resolved, ok, err, released) ==
  [op |-> op, expects |-> expects, args |-> args, resolved |-> resolved,
   ok |-> ok, err |-> err, released |-> released,
   second |-> <<op, args[Len(args)].handle>> \in destroyed,
   allocated |-> [k \in ResKinds |-> Allocated(stores[k])]]

ResIdle ==
  /\ stores = [k \in ResKinds |-> EmptyStore]
  /\ objects = [k \in ResKinds |-> <<>>]
  /\ natives = {}
  /\ issued = {}
  /\ destroyed = {}
  /\ doubleRelease = FALSE
  /\ lastOp = NoOp
  /\ calls = 0
  /\ map_count = <<>>

\* cgpu_initialize: the stores are created empty
ResInit == ResIdle

\* a call that fails before it changed anything
Fails(op, expects, args, resolved, err) ==
  /\ lastOp' = Returned(op, expects, args, resolved, FALSE, err, FALSE)
  /\ UNCHANGED <<stores, objects, natives, issued, destroyed, doubleRelease>>

\* cgpu_create_device; vk_ok: the instance, device and allocator calls succeed
cgpu_create_device(vk_ok) ==
  /\ calls < MaxCalls
  /\ calls' = calls + 1
  /\ LET r == create_handle(stores.device)
         h == Typed("device", r.handle)
     IN  IF vk_ok
         THEN /\ stores' = [stores EXCEPT !.device = r.store]
              /\ objects' = [objects EXCEPT !.device =
                   PutObject(@, r.handle.index, [native |-> h, device |-> r.handle])]
              /\ natives' = natives \cup {h}
              /\ issued' = issued \cup {h}
              /\ lastOp' = Returned("cgpu_create_device", <<"device">>, <<h>>,
                                    <<TRUE>>, TRUE, "", FALSE)
              /\ UNCHANGED <<destroyed, doubleRelease>>
         ELSE /\ stores' = [stores EXCEPT !.device = free_handle(r.store, r.handle)]
              /\ lastOp' = Returned("cgpu_create_device", <<"device">>, <<h>>,
                                    <<TRUE>>, FALSE, "failed to create device", FALSE)
              /\ UNCHANGED <<objects, natives, issued, destroyed, doubleRelease>>

\* cgpu_destroy_device
cgpu_destroy_device(device) ==
  /\ calls < MaxCalls
  /\ calls' = calls + 1
  /\ LET op == "cgpu_destroy_device"
         expects == <<"device">>
         args == <<device>>
     IN  IF ~is_handle_valid(stores.device, device.handle)
         THEN Fails(op, expects, args, <<FALSE>>, InvalidHandle)
         ELSE LET idevice == objects.device[device.handle.index + 1]
              IN  /\ natives' = natives \ {idevice.native}
                  /\ doubleRelease' = (doubleRelease \/ idevice.native \notin natives)
                  /\ stores' = [stores EXCEPT
                                  !.device = free_handle(@, device.handle)]
                  /\ destroyed' = destroyed \cup {<<op, device.handle>>}
                  /\ lastOp' = Returned(op, expects, args, <<TRUE>>, TRUE, "", TRUE)
                  /\ UNCHANGED <<objects, issued>>

CreateOp(kind) == IF kind = "buffer" THEN "cgpu_create_buffer"
                  ELSE IF kind = "image" THEN "cgpu_create_image"
                  ELSE "cgpu_create_command_buffer"

DestroyOp(kind) == IF kind = "buffer" THEN "cgpu_destroy_buffer"
                   ELSE IF kind = "image" THEN "cgpu_destroy_image"
                   ELSE "cgpu_destroy_command_buffer"

\* cgpu_create_buffer, cgpu_create_image, cgpu_create_command_buffer; vk_ok:
\* the native calls succeed.  A buffer or an image that fails gives its handle
\* back; a command buffer that fails to allocate returns without doing so.
cgpu_create(kind, device, vk_ok) ==
  /\ calls < MaxCalls
  /\ calls' = calls + 1
  /\ LET op == CreateOp(kind)
     IN  IF ~is_handle_valid(stores.device, device.handle)
         THEN Fails(op, <<"device">>, <<device>>, <<FALSE>>, InvalidHandle)
         ELSE LET r == create_handle(stores[kind])
                  h == Typed(kind, r.handle)
                  object == [native |-> h, device |-> device.handle]
              IN  IF vk_ok
                  THEN /\ stores' = [stores EXCEPT ![kind] = r.store]
                       /\ objects' = [objects EXCEPT ![kind] =
                                        PutObject(@, r.handle.index, object)]
                       /\ natives' = natives \cup {h}
                       /\ issued' = issued \cup {h}
                       /\ lastOp' = Returned(op, <<"device">>, <<device>>,
                                             <<TRUE>>, TRUE, "", FALSE)
                       /\ UNCHANGED <<destroyed, doubleRelease>>
                  ELSE /\ stores' = [stores EXCEPT ![kind] =
                            IF kind = "command_buffer" THEN r.store
                            ELSE free_handle(r.store, r.handle)]
                       /\ objects' = IF kind = "command_buffer"
                            THEN [objects EXCEPT ![kind] =
                                    PutObject(@, r.handle.index, object)]
                            ELSE objects
                       /\ lastOp' = Returned(op, <<"device">>, <<device>>,
                                             <<TRUE>>, FALSE, "failed to create", FALSE)
                       /\ UNCHANGED <<natives, issued, destroyed, doubleRelease>>

\* cgpu_destroy_buffer, cgpu_destroy_image, cgpu_destroy_command_buffer
cgpu_destroy(kind, device, resource) ==
  /\ calls < MaxCalls
  /\ calls' = calls + 1
  /\ LET op == DestroyOp(kind)
         expects == <<"device", kind>>
         args == <<device, resource>>
     IN  IF ~is_handle_valid(stores.device, device.handle)
         THEN Fails(op, expects, args, <<FALSE, FALSE>>, InvalidHandle)
         ELSE IF ~is_handle_valid(stores[kind], resource.handle)
         THEN Fails(op, expects, args, <<TRUE, FALSE>>, InvalidHandle)
         ELSE LET iresource == objects[kind][resource.handle.index + 1]
              IN  /\ natives' = natives \ {iresource.native}
                  /\ doubleRelease' = (doubleRelease \/ iresource.native \notin natives)
                  /\ stores' = [stores EXCEPT
                                  ![kind] = free_handle(@, resource.handle)]
                  /\ destroyed' = destroyed \cup {<<op, resource.handle>>}
                  /\ lastOp' = Returned(op, expects, args, <<TRUE, TRUE>>, TRUE, "",
                                        TRUE)
                  /\ UNCHANGED <<objects, issued>>

\* cgpu_submit_command_buffer; fence_resolves: the fence handle resolves,
\* vk_ok: vkQueueSubmit succeeds
cgpu_submit_command_buffer(device, command_buffer, fence_resolves, vk_ok) ==
  /\ calls < MaxCalls
  /\ calls' = calls + 1
  /\ LET op == "cgpu_submit_command_buffer"
         expects == <<"device", "command_buffer">>
         args == <<device, command_buffer>>
     IN  IF ~is_handle_valid(stores.device, device.handle)
         THEN Fails(op, expects, args, <<FALSE, FALSE>>, InvalidHandle)
         ELSE IF ~is_handle_valid(stores.command_buffer, command_buffer.handle)
         THEN Fails(op, expects, args, <<TRUE, FALSE>>, InvalidHandle)
         ELSE IF ~fence_resolves
         THEN Fails(op, expects, args, <<TRUE, TRUE>>, InvalidHandle)
         ELSE IF ~vk_ok
         THEN Fails(op, expects, args, <<TRUE, TRUE>>,
                    "failed to submit command buffer")
         ELSE /\ lastOp' = Returned(op, expects, args, <<TRUE, TRUE>>, TRUE, "",
                                    FALSE)
              /\ UNCHANGED <<stores, objects, natives, issued, destroyed,
                             doubleRelease>>

MapOp(kind) == IF kind = "buffer" THEN "cgpu_map_buffer" ELSE "cgpu_map_image"

UnmapOp(kind) == IF kind = "buffer" THEN "cgpu_unmap_buffer" ELSE "cgpu_unmap_image"

\* the outstanding mappings of an allocation
MapCount(allocation) ==
  IF allocation \in DOMAIN map_count THEN map_count[allocation] ELSE 0

\* vmaMapMemory and vmaUnmapMemory count the mappings of an allocation
SetMapCount(allocation, n) ==
  [a \in DOMAIN map_count \cup {allocation} |->
     IF a = allocation THEN n ELSE map_count[a]]

\* cgpu_map_buffer, cgpu_map_image; vk_ok: vmaMapMemory returns VK_SUCCESS
cgpu_map(kind, device, resource, vk_ok) ==
  /\ calls < MaxCalls
  /\ calls' = calls + 1
  /\ LET op == MapOp(kind)
         expects == <<"device", kind>>
         args == <<device, resource>>
     IN  IF ~is_handle_valid(stores.device, device.handle)
         THEN Fails(op, expects, args, <<FALSE, FALSE>>, InvalidHandle)
              /\ UNCHANGED map_count
         ELSE IF ~is_handle_valid(stores[kind], resource.handle)
         THEN Fails(op, expects, args, <<TRUE, FALSE>>, InvalidHandle)
              /\ UNCHANGED map_count
         ELSE IF ~vk_ok
         THEN Fails(op, expects, args, <<TRUE, TRUE>>, "failed to map memory")
              /\ UNCHANGED map_count
         ELSE LET iresource == objects[kind][resource.handle.index + 1]
              IN  /\ map_count' = SetMapCount(iresource.native,
                                              MapCount(iresource.native) + 1)
                  /\ lastOp' = Returned(op, expects, args, <<TRUE, TRUE>>, TRUE, "",
                                        FALSE)
                  /\ UNCHANGED <<stores, objects, natives, issued, destroyed,
                                 doubleRelease>>

\* cgpu_unmap_buffer, cgpu_unmap_image
cgpu_unmap(kind, device, resource) ==
  /\ calls < MaxCalls
  /\ calls' = calls + 1
  /\ LET op == UnmapOp(kind)
         expects == <<"device", kind>>
         args == <<device, resource>>
     IN  IF ~is_handle_valid(stores.device, device.handle)
         THEN Fails(op, expects, args, <<FALSE, FALSE>>, InvalidHandle)
              /\ UNCHANGED map_count
         ELSE IF ~is_handle_valid(stores[kind], resource.handle)
         THEN Fails(op, expects, args, <<TRUE, FALSE>>, InvalidHandle)
              /\ UNCHANGED map_count
         ELSE LET iresource == objects[kind][resource.handle.index + 1]
                  n == MapCount(iresource.native)
              IN  /\ map_count' = SetMapCount(iresource.native,
                                              IF n > 0 THEN n - 1 ELSE 0)
                  /\ lastOp' = Returned(op, expects, args, <<TRUE, TRUE>>, TRUE, "",
                                        FALSE)
                  /\ UNCHANGED <<stores, objects, natives, issued, destroyed,
                                 doubleRelease>>

\* the calls that create, map and unmap buffers and images
MapNext ==
  \/ (\E vk_ok \in BOOLEAN : cgpu_create_device(vk_ok)) /\ UNCHANGED map_count
  \/ (\E kind \in {"buffer", "image"}, device \in CallerHandles :
        cgpu_create(kind, device, TRUE)) /\ UNCHANGED map_count
  \/ \E kind \in {"buffer", "image"}, device, resource \in CallerHandles,
        vk_ok \in BOOLEAN : cgpu_map(kind, device, resource, vk_ok)
  \/ \E kind \in {"buffer", "image"}, device, resource \in CallerHandles :
        cgpu_unmap(kind, device, resource)

ResNext ==
  \/ \E vk_ok \in BOOLEAN : cgpu_create_device(vk_ok)
  \/ \E device \in CallerHandles : cgpu_destroy_device(device)
  \/ \E kind \in ResKinds \ {"device"}, device \in CallerHandles, vk_ok \in BOOLEAN :
       cgpu_create(kind, device, vk_ok)
  \/ \E kind \in ResKinds \ {"device"}, device, resource \in CallerHandles :
       cgpu_destroy(kind, device, resource)
  \/ \E device, command_buffer \in CallerHandles, fence_resolves, vk_ok \in BOOLEAN :
       cgpu_submit_command_buffer(device, command_buffer, fence_resolves, vk_ok)

(***************************************************************************)
(* Command recording.  Vulkan enumerators are kept by name; an access mask *)
(* is the set of its bits.  Image 0 (buffer 0, sampler 0) stands for a     *)
(* handle that does not resolve.                                           *)
(***************************************************************************)
MAX_DESCRIPTOR_BUFFER_INFOS == 64
MAX_DESCRIPTOR_IMAGE_INFOS == 2048
MAX_WRITE_DESCRIPTOR_SETS == 128
MAX_IMAGE_MEMORY_BARRIERS == 2048
minStorageBufferOffsetAlignment == 16

Images == 1..NumImages
ImageLayouts == {"UNDEFINED", "GENERAL", "SHADER_READ_ONLY_OPTIMAL"}
AccessBits == {"SHADER_READ", "SHADER_WRITE", "MEMORY_WRITE"}

RB(b, t, c, r, w) ==
  [binding |-> b, descriptor_type |-> t, count |-> c,
   read_access |-> r, write_access |-> w]

\* the shaders a pipeline is created from: their reflected bindings
ReflectionChoices ==
  { <<RB(0, "STORAGE_IMAGE", 1, TRUE, TRUE)>>,
    <<RB(0, "STORAGE_IMAGE", 1, TRUE, FALSE), RB(1, "SAMPLED_IMAGE", 1, TRUE, FALSE)>>,
    <<RB(0, "SAMPLED_IMAGE", 2, TRUE, FALSE)>>,
    <<RB(0, "STORAGE_BUFFER", 1, TRUE, TRUE), RB(1, "STORAGE_IMAGE", 1, FALSE, TRUE)>>,
    <<RB(0, "SAMPLER", 1, FALSE, FALSE), RB(1, "SAMPLED_IMAGE", 1, TRUE, FALSE)>>,
    <<RB(0, "STORAGE_BUFFER", MAX_DESCRIPTOR_BUFFER_INFOS + 1, TRUE, TRUE)>> }

\* cgpu_create_pipeline_descriptors copies binding, type and count of every
\* reflected binding into descriptor_set_layout_bindings
descriptor_set_layout_bindings ==
  [i \in 1..Len(reflection) |->
     [binding |-> reflection[i].binding,
      descriptorType |-> reflection[i].descriptor_type,
      descriptorCount |-> reflection[i].count]]

IsImageType(t) == t \in {"SAMPLED_IMAGE", "STORAGE_IMAGE"}

\* new_layout of a reflected image binding
RequiredLayout(binding) ==
  IF binding.descriptor_type = "SAMPLED_IMAGE"
  THEN "SHADER_READ_ONLY_OPTIMAL" ELSE "GENERAL"

\* access_mask of a reflected image binding: the write bit replaces the read bit
ShaderAccessMask(binding) ==
  IF binding.write_access THEN {"SHADER_WRITE"}
  ELSE IF binding.read_access THEN {"SHADER_READ"}
  ELSE {}

\* the first caller-supplied entry for the binding, whatever its array index
FindBindingAnyIndex(list, binding, index) ==
  LET hits == {k \in 1..Len(list) : list[k].binding = binding}
  IN  IF hits = {} THEN 0 ELSE CHOOSE k \in hits : \A m \in hits : k <= m

\* the first caller-supplied entry for (binding, index); 0 when there is none
FindBinding(list, binding, index) ==
  LET hits == {k \in 1..Len(list) :
                 list[k].binding = binding /\ list[k].index = index}
  IN  IF hits = {} THEN 0 ELSE CHOOSE k \in hits : \A m \in hits : k <= m

TransitionFail(err, img) ==
  [ok |-> FALSE, err |-> err, iimage |-> img, barriers |-> <<>>]

\* the loops of cgpu_transition_image_layouts_for_shader over binding i and
\* array element j; img and barriers are the state built up so far
RECURSIVE TransitionLoop(_, _, _, _, _, _)
TransitionLoop(refl, p_images, i, j, img, barriers) ==
  IF i > Len(refl)
  THEN [ok |-> TRUE, err |-> "", iimage |-> img, barriers |-> barriers]
  ELSE IF ~IsImageType(refl[i].descriptor_type) \/ j >= refl[i].count
  THEN TransitionLoop(refl, p_images, i + 1, 0, img, barriers)
  ELSE LET binding == refl[i]
           k == FindBinding(p_images, binding.binding, j)
       IN  IF k = 0
           THEN TransitionFail("descriptor set binding mismatch", img)
           ELSE IF p_images[k].image \notin Images
           THEN TransitionFail("invalid resource handle", img)
           ELSE LET image == p_images[k].image
                    old_layout == img[image].layout
                    new_layout == RequiredLayout(binding)
                    access_mask == ShaderAccessMask(binding)
                IN  IF new_layout = old_layout
                    THEN TransitionLoop(refl, p_images, i, j + 1, img, barriers)
                    ELSE IF Len(barriers) >= MAX_IMAGE_MEMORY_BARRIERS
                    THEN TransitionFail("hardcoded limit reached", img)
                    ELSE TransitionLoop(refl, p_images, i, j + 1,
                           [img EXCEPT ![image] =
                              [layout |-> new_layout, access_mask |-> access_mask]],
                           Append(barriers,
                             [image |-> image,
                              srcAccessMask |-> img[image].access_mask,
                              dstAccessMask |-> access_mask,
                              oldLayout |-> old_layout,
                              newLayout |-> new_layout]))

\* cgpu_transition_image_layouts_for_shader: result, the tracked image state
\* it leaves behind and the barriers it hands to vkCmdPipelineBarrier
cgpu_transition_image_layouts_for_shader(resolves, p_images) ==
  IF ~resolves.shader \/ ~resolves.device
  THEN TransitionFail("invalid resource handle", iimage)
  ELSE TransitionLoop(reflection, p_images, 1, 0, iimage, <<>>)

DescriptorFail(err) == [ok |-> FALSE, err |-> err, writes |-> <<>>]

OutOfRange == "write past the end of buffer_infos"

\* one pass of the loop over the array elements of a layout binding: element j
\* of the binding, with buffer_info_count and image_info_count as in n.  The
\* result is the error the pass returns with ("" when it has none) and the
\* info it writes.  A write to buffer_infos[buffer_info_count] outside the
\* array either lands in the memory behind it and the call goes on, or it ends
\* the call there.
SlotResult(lands, layout_binding, bindings, j, n) ==
  LET t == layout_binding.descriptorType
      Fail(err) == [err |-> err, info |-> <<>>]
  IN
    IF t = "STORAGE_BUFFER"
    THEN LET k == FindBinding(bindings.p_buffers, layout_binding.binding, j) IN
         IF k = 0 THEN Fail("resource binding mismatch")
         ELSE IF bindings.p_buffers[k].buffer = 0
         THEN Fail("invalid resource handle")
         ELSE IF bindings.p_buffers[k].offset % minStorageBufferOffsetAlignment # 0
         THEN Fail("buffer binding offset not aligned")
         ELSE IF n.image >= MAX_DESCRIPTOR_BUFFER_INFOS
         THEN Fail("hardcoded limit reached")
         ELSE IF n.buffer >= MAX_DESCRIPTOR_BUFFER_INFOS /\ ~lands
         THEN Fail(OutOfRange)
         ELSE [err |-> "", info |-> [buffer |-> bindings.p_buffers[k].buffer,
                                     offset |-> bindings.p_buffers[k].offset]]
    ELSE IF IsImageType(t)
    THEN LET k == FindBinding(bindings.p_images, layout_binding.binding, j) IN
         IF k = 0 THEN Fail("resource binding mismatch")
         ELSE IF bindings.p_images[k].image \notin Images
         THEN Fail("invalid resource handle")
         ELSE IF n.image >= MAX_DESCRIPTOR_IMAGE_INFOS
         THEN Fail("hardcoded limit reached")
         ELSE [err |-> "", info |-> [image |-> bindings.p_images[k].image]]
    ELSE IF t = "SAMPLER"
    THEN LET k == FindBinding(bindings.p_samplers, layout_binding.binding, j) IN
         IF k = 0 THEN Fail("resource binding mismatch")
         ELSE IF bindings.p_samplers[k].sampler = 0
         THEN Fail("invalid resource handle")
         ELSE IF n.image >= MAX_DESCRIPTOR_IMAGE_INFOS
         THEN Fail("hardcoded limit reached")
         ELSE [err |-> "", info |-> [sampler |-> bindings.p_samplers[k].sampler]]
    ELSE Fail("resource binding mismatch")

\* the counters before element j of a binding whose earlier elements passed:
\* every pass of a buffer binding adds one to buffer_info_count, every pass
\* of an image or sampler binding one to image_info_count
CountersAt(layout_binding, j, n) ==
  IF layout_binding.descriptorType = "STORAGE_BUFFER"
  THEN [n EXCEPT !.buffer = @ + j] ELSE [n EXCEPT !.image = @ + j]

\* the loops of cgpu_cmd_update_bindings from layout binding i on; n holds
\* buffer_info_count, image_info_count and write_descriptor_set_count.  The
\* loop over the array elements returns at its first element that fails.
RECURSIVE DescriptorLoop(_, _, _, _, _, _)
DescriptorLoop(lands, lb, bindings, i, n, writes) ==
  IF i > Len(lb)
  THEN [ok |-> TRUE, err |-> "", writes |-> writes]
  ELSE IF n.write >= MAX_WRITE_DESCRIPTOR_SETS
  THEN DescriptorFail("hardcoded limit reached")
  ELSE LET count == lb[i].descriptorCount
           result == [j \in 0..(count - 1) |->
                        SlotResult(lands, lb[i], bindings, j, CountersAt(lb[i], j, n))]
           failing == {j \in 0..(count - 1) : result[j].err # ""}
       IN  IF failing # {}
           THEN DescriptorFail(result[CHOOSE j \in failing :
                                        \A m \in failing : j <= m].err)
           ELSE DescriptorLoop(lands, lb, bindings, i + 1,
                  [CountersAt(lb[i], count, n) EXCEPT !.write = @ + 1],
                  Append(writes, [dstBinding |-> lb[i].binding,
                                  descriptorType |-> lb[i].descriptorType,
                                  infos |-> [j \in 1..count |-> result[j - 1].info]]))

\* ---- the arguments the model calls the recording functions with ----
SeqsUpTo(S, n) == UNION {[1..m -> S] : m \in 0..n}

HasType(t) == \E i \in 1..Len(reflection) : reflection[i].descriptor_type = t

\* the image slots (binding, array element) of the shader, in reflection order
RECURSIVE ImageSlotsFrom(_, _)
ImageSlotsFrom(i, j) ==
  IF i > Len(reflection) THEN <<>>
  ELSE IF ~IsImageType(reflection[i].descriptor_type) \/ j >= reflection[i].count
  THEN ImageSlotsFrom(i + 1, 0)
  ELSE <<[binding |-> reflection[i].binding, index |-> j]>> \o ImageSlotsFrom(i, j + 1)

ImageSlots == ImageSlotsFrom(1, 0)

\* p_images with, for slot k, no entry (f[k] = -1) or the image f[k]
RECURSIVE ImageBindingList(_, _)
ImageBindingList(f, k) ==
  IF k > Len(ImageSlots) THEN <<>>
  ELSE (IF f[k] = -1 THEN <<>>
        ELSE <<[binding |-> ImageSlots[k].binding, index |-> ImageSlots[k].index,
                image |-> f[k]]>>) \o ImageBindingList(f, k + 1)

ImageBindingLists ==
  {ImageBindingList(f, 1) : f \in [1..Len(ImageSlots) -> -1..NumImages]}

\* a buffer for every array element of the storage-buffer binding
AllBuffersBound ==
  [k \in 1..reflection[1].count |->
     [binding |-> 0, index |-> k - 1, buffer |-> 1, offset |-> 0]]

BufferBindingLists ==
  IF HasType("STORAGE_BUFFER")
  THEN SeqsUpTo([binding : {0}, index : {0}, buffer : 0..1, offset : {0, 8, 16}], 1)
       \cup {AllBuffersBound}
  ELSE {<<>>}

SamplerBindingLists ==
  IF HasType("SAMPLER")
  THEN SeqsUpTo([binding : {0}, index : {0}, sampler : 0..1], 1)
  ELSE {<<>>}

AllResolve ==
  [command_buffer |-> TRUE, device |-> TRUE, pipeline |-> TRUE, shader |-> TRUE]

\* which of the handles a call goes through resolve: all, or all but one
Resolutions ==
  {AllResolve} \cup {[AllResolve EXCEPT ![r] = FALSE] : r \in DOMAIN AllResolve}

NoUpdate ==
  [slotWithoutEntry |-> FALSE, offsetNotAligned |-> FALSE,
   vkUpdateDescriptorSets |-> FALSE]

\* the caller's list that a layout binding of this type is looked up in
EntriesOfKind(bindings, descriptorType) ==
  IF descriptorType = "STORAGE_BUFFER" THEN bindings.p_buffers
  ELSE IF IsImageType(descriptorType) THEN bindings.p_images
  ELSE IF descriptorType = "SAMPLER" THEN bindings.p_samplers
  ELSE <<>>

\* some (binding, array index) slot of the layout has no entry of its kind
SlotWithoutEntry(bindings) ==
  \E i \in 1..Len(descriptor_set_layout_bindings) :
    \E j \in 0..(descriptor_set_layout_bindings[i].descriptorCount - 1) :
      \A k \in 1..Len(EntriesOfKind(bindings,
                        descriptor_set_layout_bindings[i].descriptorType)) :
        LET e == EntriesOfKind(bindings,
                   descriptor_set_layout_bindings[i].descriptorType)[k]
        IN  e.binding # descriptor_set_layout_bindings[i].binding \/ e.index # j

\* a buffer is supplied at an offset that is no multiple of the alignment
OffsetNotAligned(bindings) ==
  \E k \in 1..Len(bindings.p_buffers) :
    bindings.p_buffers[k].offset % minStorageBufferOffsetAlignment # 0

Update(bindings, called) ==
  [slotWithoutEntry |-> SlotWithoutEntry(bindings),
   offsetNotAligned |-> OffsetNotAligned(bindings),
   vkUpdateDescriptorSets |-> called]

NoCall ==
  [op |-> "none", ok |-> FALSE, err |-> "", pre |-> <<>>, recorded |-> <<>>]

\* ---- uint32_t: a value is kept as its two 16-bit halves ----
Half == 65536
Uint32(hi, lo) == [hi |-> hi, lo |-> lo]

\* a + b of two uint32_t: the sum modulo 2^32
add_uint32(a, b) ==
  LET lo == a.lo + b.lo
      hi == a.hi + b.hi + lo \div Half
  IN  Uint32(hi % Half, lo % Half)

\* a + b of two uint32_t leaves the 32 bits
carry_uint32(a, b) == a.hi + b.hi + (a.lo + b.lo) \div Half >= Half

\* a >= n for a uint32_t a and a number n below 2^16
ge_uint32(a, n) == a.hi > 0 \/ a.lo >= n

\* the size of the timestamp query pool of a device
CGPU_MAX_TIMESTAMP_QUERIES == 32

\* offsets and counts around the ends of the pool and of the 32 bits
TimestampArguments ==
  {Uint32(0, n) : n \in {0, 1, 2, CGPU_MAX_TIMESTAMP_QUERIES - 1,
                         CGPU_MAX_TIMESTAMP_QUERIES, CGPU_MAX_TIMESTAMP_QUERIES + 1}}
  \cup {Uint32(Half - 1, n) : n \in {Half - CGPU_MAX_TIMESTAMP_QUERIES, Half - 2,
                                     Half - 1}}
  \cup {Uint32(1, 0)}

NoTimestamps == [offset |-> Uint32(0, 0), count |-> Uint32(0, 0), handles |-> FALSE]

CmdIdle ==
  /\ reflection = <<>>
  /\ iimage = <<>>
  /\ commands = <<>>
  /\ descriptor_set = <<>>
  /\ lastUpdate = NoUpdate
  /\ lastCall = NoCall
  /\ lastTimestamps = NoTimestamps

\* a pipeline over one of the shaders, images as cgpu_create_image leaves them
CmdInit ==
  /\ reflection \in ReflectionChoices
  /\ iimage = [i \in Images |-> [layout |-> "UNDEFINED", access_mask |-> {}]]
  /\ commands = <<>>
  /\ descriptor_set = <<>>
  /\ lastUpdate = NoUpdate
  /\ lastCall = NoCall
  /\ lastTimestamps = NoTimestamps

Call(op, ok, err, recorded) ==
  [op |-> op, ok |-> ok, err |-> err, pre |-> iimage, recorded |-> recorded]

\* cgpu_cmd_update_bindings
UpdateBindings(resolves, bindings, lands) ==
  /\ Len(commands) < MaxCommands
  /\ IF ~resolves.command_buffer \/ ~resolves.device \/ ~resolves.pipeline
     THEN /\ lastCall' = Call("update_bindings", FALSE, "invalid resource handle", <<>>)
          /\ lastUpdate' = Update(bindings, FALSE)
          /\ UNCHANGED <<iimage, commands, descriptor_set>>
     ELSE LET t == cgpu_transition_image_layouts_for_shader(resolves, bindings.p_images)
              d == DescriptorLoop(lands, descriptor_set_layout_bindings, bindings, 1,
                                  [buffer |-> 0, image |-> 0, write |-> 0], <<>>)
              recorded == IF t.ok /\ Len(t.barriers) > 0
                          THEN <<[op |-> "barrier", barriers |-> t.barriers]>>
                          ELSE <<>>
          IN  /\ iimage' = t.iimage
              /\ commands' = commands \o recorded
              /\ descriptor_set' = IF t.ok /\ d.ok THEN d.writes ELSE descriptor_set
              /\ lastUpdate' = Update(bindings, t.ok /\ d.ok)
              /\ lastCall' = Call("update_bindings", t.ok /\ d.ok,
                                  IF t.ok THEN d.err ELSE t.err, recorded)
  /\ UNCHANGED reflection

\* uint32_t last_index = offset + count;
\* if (last_index >= CGPU_MAX_TIMESTAMP_QUERIES)
LimitReached(offset, count) ==
  LET last_index == add_uint32(offset, count)
  IN  ge_uint32(last_index, CGPU_MAX_TIMESTAMP_QUERIES)

\* cgpu_cmd_copy_timestamps
CopyTimestamps(resolves, bufferResolves, offset, count) ==
  /\ Len(commands) < MaxCommands
  /\ lastTimestamps' = [offset |-> offset, count |-> count,
                        handles |-> /\ resolves.command_buffer
                                    /\ resolves.device
                                    /\ bufferResolves]
  /\ IF LimitReached(offset, count)
     THEN /\ lastCall' = Call("copy_timestamps", FALSE, "hardcoded limit reached", <<>>)
          /\ UNCHANGED commands
     ELSE IF ~resolves.command_buffer \/ ~resolves.device \/ ~bufferResolves
     THEN /\ lastCall' = Call("copy_timestamps", FALSE, "invalid resource handle", <<>>)
          /\ UNCHANGED commands
     ELSE LET recorded == <<[op |-> "copy_timestamps", firstQuery |-> offset,
                             queryCount |-> count]>>
          IN  /\ commands' = commands \o recorded
              /\ lastCall' = Call("copy_timestamps", TRUE, "", recorded)
  /\ UNCHANGED <<reflection, iimage, descriptor_set, lastUpdate>>

TimestampsNext ==
  \E resolves \in {r \in Resolutions : r.pipeline /\ r.shader},
     bufferResolves \in BOOLEAN, offset, count \in TimestampArguments :
    CopyTimestamps(resolves, bufferResolves, offset, count)

\* cgpu_cmd_dispatch
Dispatch(resolves) ==
  /\ Len(commands) < MaxCommands
  /\ IF ~resolves.command_buffer \/ ~resolves.device
     THEN /\ lastCall' = Call("dispatch", FALSE, "invalid resource handle", <<>>)
          /\ UNCHANGED commands
     ELSE LET recorded == <<[op |-> "dispatch", descriptor_set |-> descriptor_set]>>
          IN  /\ commands' = commands \o recorded
              /\ lastCall' = Call("dispatch", TRUE, "", recorded)
  /\ UNCHANGED <<reflection, iimage, descriptor_set, lastUpdate>>

\* a copy that takes every layout for the one it needs
NeedsTransition_never(layout) == FALSE

\* if (iimage->layout != VK_IMAGE_LAYOUT_GENERAL)
NeedsTransition(layout) == layout # "GENERAL"

\* cgpu_cmd_copy_buffer_to_image
CopyBufferToImage(resolves, bufferResolves, image) ==
  /\ Len(commands) < MaxCommands - 1
  /\ IF ~resolves.command_buffer \/ ~resolves.device \/ ~bufferResolves
        \/ image \notin Images
     THEN /\ lastCall' = Call("copy_buffer_to_image", FALSE, "invalid resource handle", <<>>)
          /\ UNCHANGED <<iimage, commands>>
     ELSE LET access_mask == iimage[image].access_mask \cup {"MEMORY_WRITE"}
              barrier == [image |-> image,
                          srcAccessMask |-> iimage[image].access_mask,
                          dstAccessMask |-> access_mask,
                          oldLayout |-> iimage[image].layout,
                          newLayout |-> "GENERAL"]
              transition == NeedsTransition(iimage[image].layout)
              post == IF transition
                      THEN [iimage EXCEPT ![image] =
                              [layout |-> "GENERAL", access_mask |-> access_mask]]
                      ELSE iimage
              recorded ==
                (IF transition
                 THEN <<[op |-> "barrier", barriers |-> <<barrier>>]>> ELSE <<>>)
                \o <<[op |-> "copy_buffer_to_image", image |-> image,
                      layout |-> post[image].layout]>>
          IN  /\ iimage' = post
              /\ commands' = commands \o recorded
              /\ lastCall' = Call("copy_buffer_to_image", TRUE, "", recorded)
  /\ UNCHANGED <<reflection, descriptor_set, lastUpdate>>

\* cgpu_cmd_update_bindings with any of the model's arguments
UpdateBindingsCall ==
  \E resolves \in Resolutions, pi \in ImageBindingLists,
     pb \in BufferBindingLists, ps \in SamplerBindingLists,
     lands \in (IF HasType("STORAGE_BUFFER") THEN BOOLEAN ELSE {TRUE}) :
    UpdateBindings(resolves, [p_images |-> pi, p_buffers |-> pb, p_samplers |-> ps],
                   lands)

CmdNext ==
  \/ UpdateBindingsCall
  \/ \E resolves \in Resolutions : Dispatch(resolves)
  \/ \E resolves \in Resolutions, b \in BOOLEAN, image \in 0..NumImages :
       CopyBufferToImage(resolves, b, image)


(***************************************************************************)
(* The render pass.  A cache is known by the number gi gave it; gi.caches  *)
(* remembers, for every cache made, its kind and (for a geometry cache)    *)
(* the shader cache it was built against.                                  *)
(***************************************************************************)
UINT32_MAX == -1   \* all bits set; no counter of the model reaches it

AovIds == {"COLOR", "NORMAL"}

Counters == {"scene", "sprim", "settings", "vis"}

NoBasis == [scene |-> UINT32_MAX, sprim |-> UINT32_MAX, settings |-> UINT32_MAX,
            vis |-> UINT32_MAX, aov |-> "none"]

\* what the scene looks like to a frame that renders AOV aov now
Basis(aov) ==
  [scene |-> tracker.scene, sprim |-> tracker.sprim,
   settings |-> tracker.settings, vis |-> tracker.vis, aov |-> aov]

NoFrame ==
  [reached |-> FALSE, aov |-> "none", changed |-> {}, steps |-> <<>>,
   shaderCacheNeedsRebuild |-> FALSE,
   pre |-> [shaderCache |-> 0, geomCache |-> 0],
   accumulatedOnto |-> [samples |-> FALSE, basis |-> NoBasis],
   basis |-> NoBasis]

PassIdle ==
  /\ tracker = [c \in Counters |-> 0]
  /\ m_last = NoBasis
  /\ m_shaderCache = 0
  /\ m_geomCache = 0
  /\ m_isConverged = FALSE
  /\ gi = [fb |-> [samples |-> FALSE, basis |-> NoBasis], caches |-> <<>>,
           destroyed |-> {}]
  /\ frame = NoFrame

\* the constructor; m_lastAovId has no initialiser, so its value is arbitrary
PassInit ==
  /\ tracker = [c \in Counters |-> 0]
  /\ m_last \in [scene : {UINT32_MAX}, sprim : {UINT32_MAX}, settings : {UINT32_MAX},
                 vis : {UINT32_MAX}, aov : AovIds \cup {"indeterminate"}]
  /\ m_shaderCache = 0
  /\ m_geomCache = 0
  /\ m_isConverged = FALSE
  /\ gi = [fb |-> [samples |-> FALSE, basis |-> NoBasis], caches |-> <<>>,
           destroyed |-> {}]
  /\ frame = NoFrame

\* the render pass state and the gi answers a frame can meet
EarlyReturns ==
  {"no camera", "no aov bindings", "aov not supported", "unsupported format"}

FrameInputs ==
  [state : EarlyReturns, aov : {"none"}, shaderCacheNeedsRebuild : {FALSE},
   geomCacheNeedsRebuild : {FALSE}, shaderCacheCreated : {TRUE},
   geomCacheCreated : {TRUE}]
  \cup
  [state : {"ok"}, aov : AovIds, shaderCacheNeedsRebuild : BOOLEAN,
   geomCacheNeedsRebuild : BOOLEAN, shaderCacheCreated : BOOLEAN,
   geomCacheCreated : BOOLEAN]

\* the scene delegate or the application changes something between frames
Bump(c) ==
  /\ tracker[c] < MaxVersion
  /\ tracker' = [tracker EXCEPT ![c] = @ + 1]
  /\ UNCHANGED <<m_last, m_shaderCache, m_geomCache, m_isConverged, gi, frame>>

\* rebuildShaderCache without the render settings version
rebuildShaderCache_unsettled(shaderCache, aovChanged, needsRebuild, renderSettingsChanged) ==
  shaderCache = 0 \/ aovChanged \/ needsRebuild

\* bool rebuildShaderCache of _Execute
rebuildShaderCache(shaderCache, aovChanged, needsRebuild, renderSettingsChanged) ==
  shaderCache = 0 \/ aovChanged \/ needsRebuild \/ renderSettingsChanged

\* the frame goes on to render when only the shader cache is looked at
CachesExist_shader_only(geomCache, shaderCache) == shaderCache # 0

\* if (!m_geomCache || !m_shaderCache) return;
CachesExist(geomCache, shaderCache) == geomCache # 0 /\ shaderCache # 0

\* HdGatlingRenderPass::_Execute
Execute(in) ==
  /\ Len(gi.caches) + 2 <= MaxCaches
  /\ IF in.state # "ok"
     THEN /\ m_isConverged' = FALSE
          /\ frame' = [NoFrame EXCEPT !.pre = [shaderCache |-> m_shaderCache,
                                               geomCache |-> m_geomCache]]
          /\ UNCHANGED <<m_last, m_shaderCache, m_geomCache, gi>>
     ELSE
       LET aovId == in.aov
           sceneChanged == tracker.scene # m_last.scene
           renderSettingsChanged == tracker.settings # m_last.settings
           visibilityChanged == m_last.vis # tracker.vis
           aovChanged == aovId # m_last.aov
           invalidate == sceneChanged \/ renderSettingsChanged
                         \/ visibilityChanged \/ aovChanged
           fb1 == IF invalidate THEN [samples |-> FALSE, basis |-> NoBasis]
                  ELSE gi.fb
           rebuildShader == rebuildShaderCache(m_shaderCache, aovChanged,
                              in.shaderCacheNeedsRebuild, renderSettingsChanged)
           rebuildGeomCache == m_geomCache = 0 \/ visibilityChanged
           doShader == (rebuildShader \/ rebuildGeomCache) /\ rebuildShader
           destroyed1 == IF doShader /\ m_shaderCache # 0
                         THEN gi.destroyed \cup {m_shaderCache} ELSE gi.destroyed
           caches1 == IF doShader /\ in.shaderCacheCreated
                      THEN Append(gi.caches, [kind |-> "shader", shaderCache |-> 0])
                      ELSE gi.caches
           shaderCache1 == IF ~doShader THEN m_shaderCache
                           ELSE IF in.shaderCacheCreated THEN Len(caches1) ELSE 0
           doGeom == /\ rebuildShader \/ rebuildGeomCache
                     /\ shaderCache1 # 0
                     /\ rebuildGeomCache \/ in.geomCacheNeedsRebuild
           destroyed2 == IF doGeom /\ m_geomCache # 0
                         THEN destroyed1 \cup {m_geomCache} ELSE destroyed1
           caches2 == IF doGeom /\ in.geomCacheCreated
                      THEN Append(caches1, [kind |-> "geom", shaderCache |-> shaderCache1])
                      ELSE caches1
           geomCache1 == IF ~doGeom THEN m_geomCache
                         ELSE IF in.geomCacheCreated THEN Len(caches2) ELSE 0
           render == CachesExist(geomCache1, shaderCache1)
           steps ==
             (IF invalidate THEN <<[op |-> "giInvalidateFramebuffer"]>> ELSE <<>>)
             \o (IF doShader /\ m_shaderCache # 0
                 THEN <<[op |-> "giDestroyShaderCache", cache |-> m_shaderCache]>>
                 ELSE <<>>)
             \o (IF doShader
                 THEN <<[op |-> "giCreateShaderCache", cache |-> shaderCache1]>>
                 ELSE <<>>)
             \o (IF doGeom /\ m_geomCache # 0
                 THEN <<[op |-> "giDestroyGeomCache", cache |-> m_geomCache]>>
                 ELSE <<>>)
             \o (IF doGeom
                 THEN <<[op |-> "giCreateGeomCache", cache |-> geomCache1]>>
                 ELSE <<>>)
             \o (IF render
                 THEN <<[op |-> "Map"],
                        [op |-> "giRender", shaderCache |-> shaderCache1,
                         geomCache |-> geomCache1],
                        [op |-> "Unmap"]>>
                 ELSE <<>>)
       IN  /\ m_last' = Basis(aovId)
           /\ m_shaderCache' = shaderCache1
           /\ m_geomCache' = geomCache1
           /\ m_isConverged' = render
           /\ gi' = [fb |-> IF render /\ ~fb1.samples
                            THEN [samples |-> TRUE, basis |-> Basis(aovId)]
                            ELSE fb1,
                     caches |-> caches2,
                     destroyed |-> destroyed2]
           /\ frame' = [reached |-> TRUE, aov |-> aovId,
                        changed |-> {c \in Counters : tracker[c] # m_last[c]}
                                    \cup (IF aovChanged THEN {"aov"} ELSE {}),
                        steps |-> steps,
                        shaderCacheNeedsRebuild |-> in.shaderCacheNeedsRebuild,
                        pre |-> [shaderCache |-> m_shaderCache,
                                 geomCache |-> m_geomCache],
                        accumulatedOnto |-> fb1,
                        basis |-> Basis(aovId)]
  /\ UNCHANGED tracker

PassNext ==
  \/ \E c \in Counters : Bump(c)
  \/ \E in \in FrameInputs : Execute(in)

\* the frames of an application that changes render settings and visibility
\* only: the two counters the cache rebuilds of _Execute depend on
RebuildNext ==
  \/ \E c \in {"settings", "vis"} : Bump(c)
  \/ \E in \in FrameInputs : Execute(in)


(***************************************************************************)
(* The scene file.  Memory and the file are sequences of 32-bit words      *)
(* (every offset and size of the format is a multiple of 4); a 64-bit      *)
(* header field is its low word followed by its high word.                 *)
(***************************************************************************)
sizeof_gp_bvhcc_node == 80
sizeof_gp_face == 16
sizeof_gp_vertex == 32
sizeof_gp_material == 32
sizeof_gp_aabb == 24
sizeof_gp_camera == 40
header_size == 256

\* n consecutive words of some array, told apart by tag
Pattern(tag, n) == [k \in 1..n |-> tag + k]

\* vertex i as gp_load_scene leaves it in memory
Vertex(i, variant) ==
  [pos |-> Pattern(6000 + 100 * i + 10 * variant, 3),
   norm |-> Pattern(7000 + 100 * i + 10 * variant, 3),
   uv |-> Pattern(8000 + 100 * i + 10 * variant, 2)]

Scenes ==
  {[bvhcc |-> [node_count |-> n,
               nodes |-> Pattern(3000, n * (sizeof_gp_bvhcc_node \div 4)),
               aabb |-> Pattern(1000, sizeof_gp_aabb \div 4)],
    camera |-> Pattern(2000, sizeof_gp_camera \div 4),
    face_count |-> f,
    faces |-> Pattern(4000, f * (sizeof_gp_face \div 4)),
    material_count |-> m,
    materials |-> Pattern(5000, m * (sizeof_gp_material \div 4)),
    vertex_count |-> v,
    vertices |-> [i \in 1..v |-> Vertex(i - 1, variant)]] :
   n \in 0..MaxCount, f \in 0..MaxCount, m \in 0..MaxCount, v \in 0..MaxCount,
   variant \in 1..2}

NoScene ==
  [bvhcc |-> [node_count |-> 0, nodes |-> <<>>, aabb |-> <<>>], camera |-> <<>>,
   face_count |-> 0, faces |-> <<>>, material_count |-> 0, materials |-> <<>>,
   vertex_count |-> 0, vertices |-> <<>>]

Counts(n, f, v) ==
  [bvhcc |-> [node_count |-> n], face_count |-> f, vertex_count |-> v]

LoopIdle ==
  /\ loop_scene = Counts(0, 0, 0)
  /\ loop_i = -1
  /\ loop_written = {}

SceneIdle ==
  /\ scene = NoScene
  /\ options = [image_width |-> 0, image_height |-> 0]
  /\ heap = 0
  /\ file = <<>>
  /\ LoopIdle

\* a loaded scene, parsed options, and whatever the allocator will hand out
SceneInit ==
  /\ scene \in Scenes
  /\ options \in {[image_width |-> 4, image_height |-> 3],
                  [image_width |-> 8, image_height |-> 8]}
  /\ heap \in {0, 43690}
  /\ file = <<>>
  /\ LoopIdle

node_buf_offset(s) == header_size
node_buf_size(s) == s.bvhcc.node_count * sizeof_gp_bvhcc_node
face_buf_offset(s) == node_buf_offset(s) + node_buf_size(s)
face_buf_size(s) == s.face_count * sizeof_gp_face
vertex_buf_offset_on_faces(s) == face_buf_offset(s)
vertex_buf_offset(s) == face_buf_offset(s) + face_buf_size(s)
vertex_buf_size(s) == s.vertex_count * sizeof_gp_vertex
material_buf_offset(s) == vertex_buf_offset(s) + vertex_buf_size(s)
material_buf_size(s) == s.material_count * sizeof_gp_material
file_size(s) == material_buf_offset(s) + material_buf_size(s)

\* malloc(size): memory that holds whatever it held before
malloc(size) == [k \in 1..(size \div 4) |-> heap]

\* memcpy(&buffer[offset], words, 4 * Len(words))
memcpy(buffer, offset, words) ==
  [k \in 1..Len(buffer) |->
     IF k - 1 >= offset \div 4 /\ k - 1 < offset \div 4 + Len(words)
     THEN words[k - offset \div 4] ELSE buffer[k]]

U32(x) == <<x>>
U64(x) == <<x, 0>>   \* every value of the model is below 2^32

\* i * 32 of the vertex loop, in words.  i is a uint32_t and 32 an int, so the
\* product is taken in 32 bits: modulo 2^32 bytes, which is 2^30 words
Words4GiB == 1073741824
ptr_offset(i) == (8 * i) % Words4GiB

\* the loop that writes vertex i and the ones after it
RECURSIVE WriteVertices(_, _, _)
WriteVertices(buffer, s, i) ==
  IF i >= s.vertex_count THEN buffer
  ELSE LET v == s.vertices[i + 1]
           at == vertex_buf_offset(s) + 4 * ptr_offset(i)
           b0 == memcpy(buffer, at + 0, U32(v.pos[1]))
           b1 == memcpy(b0, at + 4, U32(v.pos[2]))
           b2 == memcpy(b1, at + 8, U32(v.pos[3]))
           b3 == memcpy(b2, at + 12, U32(v.uv[1]))
           b4 == memcpy(b3, at + 16, U32(v.norm[1]))
           b5 == memcpy(b4, at + 20, U32(v.norm[2]))
           b6 == memcpy(b5, at + 24, U32(v.norm[3]))
           b7 == memcpy(b6, at + 28, U32(v.uv[2]))
       IN  WriteVertices(b7, s, i + 1)

\* the buffer gp_write_scene hands to gp_write_file
gp_write_scene(opts, s) ==
  LET h0 == malloc(file_size(s))
      h1 == memcpy(h0, 0, U32(opts.image_width))
      h2 == memcpy(h1, 4, U32(opts.image_height))
      h3 == memcpy(h2, 8, U64(node_buf_offset(s)))
      h4 == memcpy(h3, 16, U64(node_buf_size(s)))
      h5 == memcpy(h4, 24, U64(face_buf_offset(s)))
      h6 == memcpy(h5, 32, U64(face_buf_size(s)))
      h7 == memcpy(h6, 40, U64(vertex_buf_offset(s)))
      h8 == memcpy(h7, 48, U64(vertex_buf_size(s)))
      h9 == memcpy(h8, 56, U64(material_buf_offset(s)))
      h10 == memcpy(h9, 64, U64(material_buf_size(s)))
      h11 == memcpy(h10, 72, s.bvhcc.aabb)
      h12 == memcpy(h11, 96, s.camera)
      b1 == memcpy(h12, node_buf_offset(s), s.bvhcc.nodes)
      b2 == memcpy(b1, face_buf_offset(s), s.faces)
      b3 == WriteVertices(b2, s, 0)
  IN  memcpy(b3, material_buf_offset(s), s.materials)

WriteScene ==
  /\ file = <<>>
  /\ file' = gp_write_scene(options, scene)
  /\ UNCHANGED <<scene, options, heap, loop_scene, loop_i, loop_written>>

SceneNext == WriteScene

\* ---- the vertex loop on scenes too large to write out in the model ----
\* the first iteration whose i * 32 does not fit 32 bits
FirstWrapped == 134217728

\* the iterations followed: the first two, and the two that share their
\* value of i * 32
FollowedIterations == {0, 1, FirstWrapped, FirstWrapped + 1}

LoopInit ==
  /\ loop_scene \in {Counts(n, f, v) :
                       n \in 0..MaxCount, f \in 0..MaxCount,
                       v \in {2, FirstWrapped, FirstWrapped + 1, FirstWrapped + 2}}
  /\ loop_i = -1
  /\ loop_written = {}
  /\ scene = NoScene
  /\ options = [image_width |-> 0, image_height |-> 0]
  /\ heap = 0
  /\ file = <<>>

\* the loop runs on to the next followed iteration i and writes vertex i at
\* &buffer[vertex_buf_offset + i * 32]
VertexLoop ==
  /\ \E i \in FollowedIterations :
       /\ i > loop_i
       /\ i < loop_scene.vertex_count
       /\ \A k \in FollowedIterations : ~(loop_i < k /\ k < i)
       /\ loop_i' = i
       /\ LET at == vertex_buf_offset(loop_scene) \div 4 + ptr_offset(i)
          IN  loop_written' = {w \in loop_written : w.at # at}
                                \cup {[at |-> at, i |-> i]}
  /\ UNCHANGED <<scene, options, heap, file, loop_scene>>

LoopNext == VertexLoop

\* ---- reading a written file back ----
ReadU64(f, offset) == [lo |-> f[offset \div 4 + 1], hi |-> f[offset \div 4 + 2]]

Header(f) ==
  [node_off |-> ReadU64(f, 8).lo, node_size |-> ReadU64(f, 16).lo,
   face_off |-> ReadU64(f, 24).lo, face_size |-> ReadU64(f, 32).lo,
   vertex_off |-> ReadU64(f, 40).lo, vertex_size |-> ReadU64(f, 48).lo,
   material_off |-> ReadU64(f, 56).lo, material_size |-> ReadU64(f, 64).lo,
   high_words |-> {ReadU64(f, 8 * k).hi : k \in 1..8}]

(***************************************************************************)
(* C9: in every written scene file node_off = 256, each buffer starts      *)
(* where the one before it ends (nodes, faces, vertices, materials), the   *)
(* last one ends at the end of the file, and the sizes are 80, 16, 32 and  *)
(* 32 bytes times the node, face, vertex and material count.               *)
(***************************************************************************)
C9_HeaderLayout ==
  file # <<>> =>
    LET h == Header(file) IN
    /\ h.high_words = {0}
    /\ h.node_off = 256
    /\ h.node_off + h.node_size = h.face_off
    /\ h.face_off + h.face_size = h.vertex_off
    /\ h.vertex_off + h.vertex_size = h.material_off
    /\ h.material_off + h.material_size = 4 * Len(file)
    /\ h.node_size = 80 * scene.bvhcc.node_count
    /\ h.face_size = 16 * scene.face_count
    /\ h.vertex_size = 32 * scene.vertex_count
    /\ h.material_size = 32 * scene.material_count

\* a written file in which all four buffers are non-empty and of different sizes
C9_Witness ==
  /\ file # <<>>
  /\ scene.bvhcc.node_count = 2
  /\ scene.face_count = 1
  /\ scene.vertex_count = 2
  /\ scene.material_count = 1
  /\ Header(file).material_off = 256 + 160 + 16 + 64


(***************************************************************************)
(* The traversal kernel.  A float is an exact rational n/d (d > 0), an     *)
(* infinity or NaN; the geometry of the model has integer coordinates, so  *)
(* no rounding takes place.  A 32-bit mask is the set of its bit numbers.  *)
(***************************************************************************)
Rat(n, d) == IF d < 0 THEN [k |-> "num", n |-> -n, d |-> -d]
             ELSE [k |-> "num", n |-> n, d |-> d]
Num(n) == Rat(n, 1)
PInf == [k |-> "inf", n |-> 1, d |-> 1]
NInf == [k |-> "inf", n |-> -1, d |-> 1]
NaN == [k |-> "nan", n |-> 0, d |-> 1]

Sign(a) == IF a.n > 0 THEN 1 ELSE IF a.n < 0 THEN -1 ELSE 0

\* a < b; false when either is NaN
Lt(a, b) ==
  IF a.k = "nan" \/ b.k = "nan" THEN FALSE
  ELSE IF a.k = "inf" THEN a.n < 0 /\ ~(b.k = "inf" /\ b.n < 0)
  ELSE IF b.k = "inf" THEN b.n > 0
  ELSE a.n * b.d < b.n * a.d

Eq(a, b) ==
  IF a.k = "nan" \/ b.k = "nan" THEN FALSE
  ELSE IF a.k = "inf" \/ b.k = "inf" THEN a.k = b.k /\ a.n = b.n
  ELSE a.n * b.d = b.n * a.d

Le(a, b) == Lt(a, b) \/ Eq(a, b)

Mul(a, b) ==
  IF a.k = "nan" \/ b.k = "nan" THEN NaN
  ELSE IF a.k = "inf" \/ b.k = "inf"
  THEN (IF Sign(a) * Sign(b) = 0 THEN NaN
        ELSE IF Sign(a) * Sign(b) > 0 THEN PInf ELSE NInf)
  ELSE Rat(a.n * b.n, a.d * b.d)

Add(a, b) ==
  IF a.k = "nan" \/ b.k = "nan" THEN NaN
  ELSE IF a.k = "inf" /\ b.k = "inf" THEN (IF a.n = b.n THEN a ELSE NaN)
  ELSE IF a.k = "inf" THEN a
  ELSE IF b.k = "inf" THEN b
  ELSE Rat(a.n * b.d + b.n * a.d, a.d * b.d)

\* 1.0 / x for a direction component x
Recip(x) == IF x = 0 THEN PInf ELSE Rat(1, x)

NanModes == {"number", "formula", "nan"}

\* max(x, y) and min(x, y).  With a NaN operand the shading language leaves
\* open which operand is returned: the build returns the other operand
\* ("number"), what the defining comparison gives ("formula"), or the NaN.
Max(x, y) ==
  IF x.k # "nan" /\ y.k # "nan" THEN (IF Lt(x, y) THEN y ELSE x)
  ELSE IF build.nan = "number" THEN (IF x.k = "nan" THEN y ELSE x)
  ELSE IF build.nan = "formula" THEN x
  ELSE NaN

Min(x, y) ==
  IF x.k # "nan" /\ y.k # "nan" THEN (IF Lt(y, x) THEN y ELSE x)
  ELSE IF build.nan = "number" THEN (IF x.k = "nan" THEN y ELSE x)
  ELSE IF build.nan = "formula" THEN x
  ELSE NaN

\* integer vectors
Sub3(a, b) == <<a[1] - b[1], a[2] - b[2], a[3] - b[3]>>
Dot3(a, b) == a[1] * b[1] + a[2] * b[2] + a[3] * b[3]
Cross3(a, b) == <<a[2] * b[3] - a[3] * b[2],
                  a[3] * b[1] - a[1] * b[3],
                  a[1] * b[2] - a[2] * b[1]>>

\* test_face: Moeller-Trumbore.  det is an integer here and TRI_EPS lies
\* strictly between 0 and 1, so abs(det) < TRI_EPS is det = 0.
test_face(r, p0, p1, p2) ==
  LET e1 == Sub3(p1, p0)
      e2 == Sub3(p2, p0)
      p == Cross3(r.dir, e2)
      det == Dot3(e1, p)
      tvec == Sub3(r.origin, p0)
      bcx == Rat(Dot3(tvec, p), det)
      q == Cross3(tvec, e1)
      bcy == Rat(Dot3(r.dir, q), det)
      t == Rat(Dot3(e2, q), det)
      miss == [has_hit |-> FALSE, t |-> Num(0)]
  IN  IF det = 0 THEN miss
      ELSE IF Lt(bcx, Num(0)) \/ Lt(Num(1), bcx) THEN miss
      ELSE IF Lt(bcy, Num(0)) \/ Lt(Num(1), Add(bcx, bcy)) THEN miss
      ELSE IF Le(t, Num(0)) \/ Le(r.tmax, t) THEN miss
      ELSE [has_hit |-> TRUE, t |-> t]


\* ---- bit masks ----
BitsOf(n) == {b \in 0..7 : (n \div (2 ^ b)) % 2 = 1}
Xor(a, b) ==
  LET S == (BitsOf(a) \cup BitsOf(b)) \ (BitsOf(a) \cap BitsOf(b))
      RECURSIVE Sum(_)
      Sum(T) == IF T = {} THEN 0
                ELSE LET x == CHOOSE x \in T : TRUE IN 2 ^ x + Sum(T \ {x})
  IN  Sum(S)
findMSB(S) == CHOOSE b \in S : \A c \in S : c <= b
bitCount(S) == Cardinality(S)
HighByte(S) == {b \in S : b >= 24}          \* y & 0xFF000000
LowBits(S) == {b \in S : b < 24}            \* y & 0x00FFFFFF

\* ---- the scenes: faces and a wide BVH over them ----
Empty == [kind |-> "empty", first |-> 0, count |-> 0, node |-> 0]
Leaf(first, count) == [kind |-> "leaf", first |-> first, count |-> count, node |-> 0]
Inner(node) == [kind |-> "inner", first |-> 0, count |-> 0, node |-> node]

\* the eight child slots of a wide node, given as slot -> child
Slots(f) == [s \in 1..8 |-> IF (s - 1) \in DOMAIN f THEN f[s - 1] ELSE Empty]

Triangles ==
  << <<0, 0, 0>>, <<4, 0, 0>>, <<0, 4, 0>>,
     <<0, 0, 2>>, <<4, 0, 2>>, <<0, 4, 2>>,
     <<2, 0, 0>>, <<2, 4, 0>>, <<2, 0, 4>>,
     <<5, 5, 5>>, <<8, 5, 5>>, <<5, 8, 5>> >>

FaceList(n) == [i \in 1..n |-> [v_0 |-> 3 * i - 3, v_1 |-> 3 * i - 2, v_2 |-> 3 * i - 1]]

WideBvhs ==
  { \* one triangle in one leaf
    [vertices |-> SubSeq(Triangles, 1, 3), faces |-> FaceList(1),
     nodes |-> << [child_index |-> 0, face_index |-> 0,
                   slots |-> Slots(0 :> Leaf(0, 1))] >>],
    \* four leaves under the root
    [vertices |-> Triangles, faces |-> FaceList(4),
     nodes |-> << [child_index |-> 0, face_index |-> 0,
                   slots |-> Slots(1 :> Leaf(0, 1) @@ 2 :> Leaf(1, 1)
                                   @@ 4 :> Leaf(2, 1) @@ 7 :> Leaf(3, 1))] >>],
    \* a leaf of two faces and an inner child
    [vertices |-> Triangles, faces |-> FaceList(4),
     nodes |-> << [child_index |-> 1, face_index |-> 0,
                   slots |-> Slots(2 :> Leaf(0, 2) @@ 5 :> Inner(1))],
                  [child_index |-> 0, face_index |-> 2,
                   slots |-> Slots(1 :> Leaf(0, 1) @@ 6 :> Leaf(1, 1))] >>],
    \* three levels, two inner children under the root
    [vertices |-> Triangles, faces |-> FaceList(4),
     nodes |-> << [child_index |-> 1, face_index |-> 0,
                   slots |-> Slots(0 :> Inner(1) @@ 3 :> Leaf(0, 1) @@ 4 :> Inner(2))],
                  [child_index |-> 3, face_index |-> 1,
                   slots |-> Slots(3 :> Inner(3) @@ 5 :> Leaf(0, 1))],
                  [child_index |-> 0, face_index |-> 3,
                   slots |-> Slots(2 :> Leaf(0, 1))],
                  [child_index |-> 0, face_index |-> 2,
                   slots |-> Slots(0 :> Leaf(0, 1))] >>] }

MinOf(S) == CHOOSE x \in S : \A y \in S : x <= y
MaxOf(S) == CHOOSE x \in S : \A y \in S : y <= x

\* the corner points a child of node n (0-based) of w must enclose
RECURSIVE ChildPoints(_, _, _)
ChildPoints(w, n, child) ==
  IF child.kind = "empty" THEN {}
  ELSE IF child.kind = "leaf"
  THEN UNION {LET f == w.faces[w.nodes[n + 1].face_index + child.first + i]
              IN  {w.vertices[f.v_0 + 1], w.vertices[f.v_1 + 1], w.vertices[f.v_2 + 1]} :
              i \in 1..child.count}
  ELSE UNION {ChildPoints(w, child.node, w.nodes[child.node + 1].slots[s]) : s \in 1..8}

NodePoints(w, n) == UNION {ChildPoints(w, n, w.nodes[n + 1].slots[s]) : s \in 1..8}

Lo(P, a) == MinOf({pt[a] : pt \in P})
Hi(P, a) == MaxOf({pt[a] : pt \in P})

\* the meta byte of a child in slot s (0-based)
Meta(child, s) ==
  IF child.kind = "inner" THEN 32 + 24 + s
  ELSE IF child.kind = "leaf" THEN 32 * (2 ^ child.count - 1) + child.first
  ELSE 0

\* the 80-byte node of wide node n: origin p, exponents e (127 is scale 1),
\* imask, child and face base index, and per slot the meta byte and the
\* quantised child box relative to p
CompressNode(w, n) ==
  LET node == w.nodes[n + 1]
      P == NodePoints(w, n)
      p == <<Lo(P, 1), Lo(P, 2), Lo(P, 3)>>
      Q(s, a, hi) == LET C == ChildPoints(w, n, node.slots[s])
                     IN  IF C = {} THEN 0
                         ELSE IF hi THEN Hi(C, a) - p[a] ELSE Lo(C, a) - p[a]
  IN  [p |-> p,
       e |-> <<127, 127, 127>>,
       imask |-> {s \in 0..7 : node.slots[s + 1].kind = "inner"},
       child_index |-> node.child_index,
       face_index |-> node.face_index,
       meta |-> [s \in 1..8 |-> Meta(node.slots[s], s - 1)],
       q_lo |-> [s \in 1..8 |-> <<Q(s, 1, FALSE), Q(s, 2, FALSE), Q(s, 3, FALSE)>>],
       q_hi |-> [s \in 1..8 |-> <<Q(s, 1, TRUE), Q(s, 2, TRUE), Q(s, 3, TRUE)>>]]

Compress(w) == [n \in 1..Len(w.nodes) |-> CompressNode(w, n - 1)]


\* ---- find_hit_closest over the BVH ----
FACE_IDX_NONE == -1   \* 0xFFFFFFFF

NoGroup == [x |-> 0, y |-> {}]

oct_inv(dir) ==
  (IF dir[1] >= 0 THEN 4 ELSE 0) + (IF dir[2] >= 0 THEN 2 ELSE 0)
  + (IF dir[3] >= 0 THEN 1 ELSE 0)

\* uintBitsToFloat(e << 23)
ExponentScale(e) == IF e >= 127 THEN Num(2 ^ (e - 127)) ELSE Rat(1, 2 ^ (127 - e))

\* the slab test of the child in slot s (0-based) of node against ray r
is_intersected(node, s, r) ==
  LET inv_dir == [a \in 1..3 |-> Recip(r.dir[a])]
      local_inv_dir == [a \in 1..3 |-> Mul(ExponentScale(node.e[a]), inv_dir[a])]
      local_orig == [a \in 1..3 |-> Mul(Num(node.p[a] - r.origin[a]), inv_dir[a])]
      lt_0 == [a \in 1..3 |-> Lt(inv_dir[a], Num(0))]
      s_q_lo == [a \in 1..3 |-> IF lt_0[a] THEN node.q_hi[s + 1][a] ELSE node.q_lo[s + 1][a]]
      s_q_hi == [a \in 1..3 |-> IF lt_0[a] THEN node.q_lo[s + 1][a] ELSE node.q_hi[s + 1][a]]
      t_min == [a \in 1..3 |-> Add(Mul(local_inv_dir[a], Num(s_q_lo[a])), local_orig[a])]
      t_max == [a \in 1..3 |-> Add(Mul(local_inv_dir[a], Num(s_q_hi[a])), local_orig[a])]
      bmin == Max(Max(t_min[1], t_min[2]), Max(t_min[3], Num(0)))
      bmax == Min(Min(t_max[1], t_max[2]), Min(t_max[3], r.tmax))
  IN  Le(bmin, bmax)

\* child_bits << bit_index of the child in slot s (0-based)
HitBits(node, s, r) ==
  LET meta == node.meta[s + 1]
      is_inner == (meta \div 8) % 4 = 3
      bit_index == IF is_inner THEN Xor(meta % 32, oct_inv(r.dir)) ELSE meta % 32
      child_bits == BitsOf(meta \div 32)
  IN  {b + bit_index : b \in child_bits} \cap 0..31

\* the two passes over four children each
hitmask(node, r) ==
  UNION {IF is_intersected(node, s, r) THEN HitBits(node, s, r) ELSE {} : s \in 0..7}

BvhIdle ==
  /\ build = [nan |-> "number", TRIANGLE_POSTPONING |-> FALSE]
  /\ bvh_nodes = <<>>
  /\ faces = <<>>
  /\ vertices = <<>>
  /\ ray = [origin |-> <<0, 0, 0>>, dir |-> <<0, 0, 1>>, tmax |-> Num(0)]
  /\ ray0 = ray
  /\ hit = [face_idx |-> FACE_IDX_NONE]
  /\ node_group = NoGroup
  /\ face_group = NoGroup
  /\ stack = <<>>
  /\ pc = "idle"
  /\ postponed = 0
  /\ query = "closest"
  /\ returned = FALSE
  /\ overflowed = FALSE
  /\ resumed = 0

Origins ==
  {<<1, 1, -4>>, <<1, 1, 6>>, <<-4, 1, 1>>, <<1, -4, 1>>, <<1, 1, 1>>, <<9, 9, 9>>}

Directions == {d \in [1..3 -> {-1, 0, 1}] : d # <<0, 0, 0>>}

Rays == [origin : Origins, dir : Directions, tmax : {Num(5), Num(1000)}]

Builds == [nan : NanModes, TRIANGLE_POSTPONING : BOOLEAN]

\* a scene on the GPU, an invocation about to enter the loop of find_hit_closest
\* or of find_hit_any
BvhInit ==
  /\ build \in Builds
  /\ \E w \in WideBvhs :
       /\ bvh_nodes = Compress(w)
       /\ faces = w.faces
       /\ vertices = w.vertices
  /\ ray \in Rays
  /\ ray0 = ray
  /\ hit = [face_idx |-> FACE_IDX_NONE]
  /\ node_group = [x |-> 0, y |-> {31}]
  /\ face_group = NoGroup
  /\ stack = <<>>
  /\ pc = "loop"
  /\ postponed = 0
  /\ query \in {"closest", "any"}
  /\ returned = FALSE
  /\ overflowed = FALSE
  /\ resumed = 0

\* the part of the state an invocation changes
Cur ==
  [ray |-> ray, hit |-> hit, node_group |-> node_group, face_group |-> face_group,
   stack |-> stack, pc |-> pc, postponed |-> postponed, returned |-> returned,
   overflowed |-> overflowed, resumed |-> resumed]

Apply(st) ==
  /\ ray' = st.ray
  /\ hit' = st.hit
  /\ node_group' = st.node_group
  /\ face_group' = st.face_group
  /\ stack' = st.stack
  /\ pc' = st.pc
  /\ postponed' = st.postponed
  /\ returned' = st.returned
  /\ overflowed' = st.overflowed
  /\ resumed' = st.resumed
  /\ UNCHANGED <<build, bvh_nodes, faces, vertices, ray0, query>>

\* a push: stack[stack_size] = group; stack_size++.  find_hit_closest has an
\* ASSERT in front of it, the fatal error on overflow; find_hit_any has none,
\* and a write past the array either lands somewhere or is lost.
Push(st, group, q, lost) ==
  IF Len(st.stack) < MAX_STACK_SIZE
  THEN [st EXCEPT !.stack = Append(@, group)]
  ELSE IF q = "closest"
  THEN [st EXCEPT !.pc = "fatal error"]
  ELSE [st EXCEPT !.stack = Append(@, IF lost THEN NoGroup ELSE group),
                  !.overflowed = TRUE]

\* the head of the loop: take the faces of the group, or step into a child
TraverseStep(st, q, lost) ==
  IF HighByte(st.node_group.y) = {}
  THEN [st EXCEPT !.face_group = st.node_group, !.node_group = NoGroup,
                  !.pc = "faces"]
  ELSE LET child_bit_idx == findMSB(st.node_group.y)
           slot_index == Xor(child_bit_idx - 24, oct_inv(st.ray.dir))
           rel_idx == bitCount({b \in st.node_group.y : b < slot_index})
           child_node_idx == st.node_group.x + rel_idx
           rest == st.node_group.y \ {child_bit_idx}
           pushed == IF HighByte(rest) # {}
                     THEN Push(st, [x |-> st.node_group.x, y |-> rest], q, lost)
                     ELSE st
           node == bvh_nodes[child_node_idx + 1]
           mask == hitmask(node, st.ray)
       IN  IF pushed.pc = "fatal error" THEN pushed
           ELSE [pushed EXCEPT
                   !.node_group = [x |-> node.child_index,
                                   y |-> HighByte(mask) \cup node.imask],
                   !.face_group = [x |-> node.face_index, y |-> LowBits(mask)],
                   !.pc = "faces"]

\* one pass of the face loop: the test of the face of the highest set bit
FaceStep(st, q) ==
  LET face_rel_index == findMSB(st.face_group.y)
      face_index == st.face_group.x + face_rel_index
      f == faces[face_index + 1]
      res == test_face(st.ray, vertices[f.v_0 + 1], vertices[f.v_1 + 1],
                       vertices[f.v_2 + 1])
      popped == [st EXCEPT !.face_group.y = @ \ {face_rel_index}]
  IN  IF ~res.has_hit THEN popped
      ELSE IF q = "any" THEN [popped EXCEPT !.pc = "done", !.returned = TRUE]
      ELSE [popped EXCEPT !.ray.tmax = res.t, !.hit = [face_idx |-> face_index]]

\* the postponement branch of the face loop
PostponeStep(st, q, lost) ==
  LET pushed == Push(st, st.face_group, q, lost)
  IN  IF pushed.pc = "fatal error" THEN pushed
      ELSE [pushed EXCEPT !.pc = "next", !.postponed = @ + 1]

\* a stack entry that holds faces only: what the postponement pushes (a pushed
\* node group always has a bit in its high byte)
IsFaceGroup(group) == HighByte(group.y) = {} /\ group.y # {}

\* after the face loop: continue with the node group, pop, or return
AdvanceStep(st, q) ==
  IF HighByte(st.node_group.y) # {}
  THEN [st EXCEPT !.pc = "loop", !.face_group = NoGroup]
  ELSE IF Len(st.stack) > 0
  THEN [st EXCEPT !.node_group = st.stack[Len(st.stack)],
                  !.stack = SubSeq(st.stack, 1, Len(st.stack) - 1),
                  !.pc = "loop", !.face_group = NoGroup,
                  !.resumed = IF IsFaceGroup(st.stack[Len(st.stack)])
                              THEN @ + 1 ELSE @]
  ELSE [st EXCEPT !.pc = "done", !.face_group = NoGroup,
                  !.returned = (q = "closest" /\ st.hit.face_idx # FACE_IDX_NONE)]

TraverseNode ==
  /\ pc = "loop"
  /\ \E lost \in BOOLEAN : Apply(TraverseStep(Cur, query, lost))

TestFace ==
  /\ pc = "faces"
  /\ face_group.y # {}
  /\ Apply(FaceStep(Cur, query))

\* too few lanes of the subgroup are still testing faces, so the face group
\* goes back onto the stack and the face loop is left: under
\* TRIANGLE_POSTPONING in find_hit_closest, always in find_hit_any
PostponeFaces ==
  /\ pc = "faces"
  /\ face_group.y # {}
  /\ query = "any" \/ build.TRIANGLE_POSTPONING
  /\ postponed < MaxPostpones
  /\ \E lost \in BOOLEAN : Apply(PostponeStep(Cur, query, lost))

Advance ==
  /\ \/ pc = "faces" /\ face_group.y = {}
     \/ pc = "next"
  /\ Apply(AdvanceStep(Cur, query))

\* an invocation at the entry of the loop, with the ray r
Entry(r) ==
  [ray |-> r, hit |-> [face_idx |-> FACE_IDX_NONE],
   node_group |-> [x |-> 0, y |-> {31}], face_group |-> NoGroup,
   stack |-> <<>>, pc |-> "loop", postponed |-> 0, returned |-> FALSE,
   overflowed |-> FALSE, resumed |-> 0]

\* find_hit_closest compiled without TRIANGLE_POSTPONING, run to its return
\* (or to its fatal error): the face loop always tests every face of the group
RECURSIVE RunClosest(_)
RunClosest(st) ==
  IF st.pc = "loop" THEN RunClosest(TraverseStep(st, "closest", FALSE))
  ELSE IF st.pc = "faces" /\ st.face_group.y # {}
  THEN RunClosest(FaceStep(st, "closest"))
  ELSE IF st.pc = "faces" THEN RunClosest(AdvanceStep(st, "closest"))
  ELSE st

find_hit_closest(r) == RunClosest(Entry(r))

BvhNext == TraverseNode \/ TestFace \/ PostponeFaces \/ Advance

\* ---- find_hit_closest without BVH_ENABLED: the loop over all faces ----
RECURSIVE BruteForceFrom(_, _, _)
BruteForceFrom(r, face_idx, face_index) ==
  IF face_index >= Len(faces) THEN [tmax |-> r.tmax, face_idx |-> face_idx]
  ELSE LET f == faces[face_index + 1]
           res == test_face(r, vertices[f.v_0 + 1], vertices[f.v_1 + 1],
                            vertices[f.v_2 + 1])
       IN  IF res.has_hit
           THEN BruteForceFrom([r EXCEPT !.tmax = res.t], face_index, face_index + 1)
           ELSE BruteForceFrom(r, face_idx, face_index + 1)

brute_force_find_hit_closest(r) == BruteForceFrom(r, FACE_IDX_NONE, 0)

Init == StoreInit /\ ResIdle /\ CmdIdle /\ PassIdle /\ SceneIdle /\ BvhIdle
Next == StoreNext
Spec == Init /\ [][Next]_vars

SpecSlab == Init /\ [][SlabNext]_vars

InitRes == ResInit /\ StoreInit /\ CmdIdle /\ PassIdle /\ SceneIdle /\ BvhIdle
NextRes ==
  ResNext /\ UNCHANGED <<map_count, storeVars, cmdVars, passVars, sceneVars, bvhVars>>
SpecRes == InitRes /\ [][NextRes]_vars

NextMap == MapNext /\ UNCHANGED <<storeVars, cmdVars, passVars, sceneVars, bvhVars>>
SpecMap == InitRes /\ [][NextMap]_vars

InitCmd == CmdInit /\ StoreInit /\ ResIdle /\ PassIdle /\ SceneIdle /\ BvhIdle
NextCmd ==
  CmdNext /\ UNCHANGED <<lastTimestamps, storeVars, resVars, passVars, sceneVars,
                         bvhVars>>
SpecCmd == InitCmd /\ [][NextCmd]_vars

\* a command buffer that only has bindings updated
NextBind ==
  /\ Len(commands) < MaxUpdates
  /\ UpdateBindingsCall
  /\ UNCHANGED <<lastTimestamps, storeVars, resVars, passVars, sceneVars, bvhVars>>
SpecBind == InitCmd /\ [][NextBind]_vars

\* a command buffer that has bindings updated, with handles that resolve, and
\* buffers copied to images
NextCopy ==
  /\ Len(commands) < MaxUpdates
  /\ \/ \E pi \in ImageBindingLists, pb \in BufferBindingLists,
           ps \in SamplerBindingLists :
          UpdateBindings(AllResolve,
                         [p_images |-> pi, p_buffers |-> pb, p_samplers |-> ps], TRUE)
     \/ \E resolves \in Resolutions, b \in BOOLEAN, image \in 0..NumImages :
          CopyBufferToImage(resolves, b, image)
  /\ UNCHANGED <<lastTimestamps, storeVars, resVars, passVars, sceneVars, bvhVars>>
SpecCopy == InitCmd /\ [][NextCopy]_vars

\* a command buffer that only has timestamps copied; no pipeline is involved
NextTimestamps ==
  /\ Len(commands) < MaxUpdates
  /\ TimestampsNext
  /\ UNCHANGED <<storeVars, resVars, passVars, sceneVars, bvhVars>>
SpecTimestamps == Init /\ [][NextTimestamps]_vars

InitPass == PassInit /\ StoreInit /\ ResIdle /\ CmdIdle /\ SceneIdle /\ BvhIdle
NextPass == PassNext /\ UNCHANGED <<storeVars, resVars, cmdVars, sceneVars, bvhVars>>
SpecPass == InitPass /\ [][NextPass]_vars

NextRebuild ==
  RebuildNext /\ UNCHANGED <<storeVars, resVars, cmdVars, sceneVars, bvhVars>>
SpecRebuild == InitPass /\ [][NextRebuild]_vars

InitScene == SceneInit /\ StoreInit /\ ResIdle /\ CmdIdle /\ PassIdle /\ BvhIdle
NextScene == SceneNext /\ UNCHANGED <<storeVars, resVars, cmdVars, passVars, bvhVars>>
SpecScene == InitScene /\ [][NextScene]_vars

InitLoop == LoopInit /\ StoreInit /\ ResIdle /\ CmdIdle /\ PassIdle /\ BvhIdle
NextLoop == LoopNext /\ UNCHANGED <<storeVars, resVars, cmdVars, passVars, bvhVars>>
SpecLoop == InitLoop /\ [][NextLoop]_vars

InitBvh == BvhInit /\ StoreInit /\ ResIdle /\ CmdIdle /\ PassIdle /\ SceneIdle
NextBvh == BvhNext /\ UNCHANGED <<storeVars, resVars, cmdVars, passVars, sceneVars>>
SpecBvh == InitBvh /\ [][NextBvh]_vars

BoundImages(ds, i) ==
  IF i > Len(ds) \/ ~IsImageType(reflection[i].descriptor_type) THEN {}
  ELSE {ds[i].infos[j].image : j \in 1..Len(ds[i].infos)}

\* image is bound by ds, and to reflected binding i only
BoundOnlyTo(ds, image, i) ==
  /\ image \in BoundImages(ds, i)
  /\ \A k \in 1..Len(reflection) : k # i => image \notin BoundImages(ds, k)

\* the access a binding needs as the interface documents it: every reflected
\* kind of access
DocumentedAccessMask(binding) ==
  IF binding.descriptor_type = "SAMPLED_IMAGE" THEN {"SHADER_READ"}
  ELSE (IF binding.read_access THEN {"SHADER_READ"} ELSE {})
       \cup (IF binding.write_access THEN {"SHADER_WRITE"} ELSE {})

BarriersOf(recorded) ==
  UNION {{recorded[c].barriers[k] : k \in 1..Len(recorded[c].barriers)} :
           c \in {d \in 1..Len(recorded) : recorded[d].op = "barrier"}}

\* the layout the GPU will find image in after the first n recorded commands
RECURSIVE StreamLayout(_, _)
StreamLayout(image, n) ==
  IF n = 0 THEN "UNDEFINED"
  ELSE LET before == StreamLayout(image, n - 1)
           mine == IF commands[n].op = "barrier"
                   THEN {b \in BarriersOf(<<commands[n]>>) : b.image = image}
                   ELSE {}
       IN  IF mine = {} THEN before ELSE (CHOOSE b \in mine : TRUE).newLayout

(***************************************************************************)
(* C2: after cgpu_cmd_update_bindings returns true, an image bound to a    *)
(* sampled-image binding is tracked as SHADER_READ_ONLY_OPTIMAL with       *)
(* access SHADER_READ, and an image bound to a storage-image binding as    *)
(* GENERAL with the union of the reflected read and write accesses,        *)
(* whatever was tracked before.  (Stated for images bound to one binding.) *)
(***************************************************************************)
C2_TrackedStateAfterUpdate ==
  (lastCall.op = "update_bindings" /\ lastCall.ok) =>
    \A i \in 1..Len(reflection) : \A image \in Images :
      BoundOnlyTo(descriptor_set, image, i) =>
        /\ iimage[image].layout = RequiredLayout(reflection[i])
        /\ iimage[image].access_mask = DocumentedAccessMask(reflection[i])

(***************************************************************************)
(* C3: cgpu_cmd_update_bindings records an image barrier for every bound   *)
(* image whose tracked layout or tracked access mask differs from what its *)
(* binding requires, a difference in the access mask alone included, and   *)
(* the barrier carries the layout and access tracked before the call.      *)
(***************************************************************************)
C3_BarrierForEveryDifference ==
  (lastCall.op = "update_bindings" /\ lastCall.ok) =>
    \A i \in 1..Len(reflection) : \A image \in Images :
      (/\ BoundOnlyTo(descriptor_set, image, i)
       /\ \/ lastCall.pre[image].layout # RequiredLayout(reflection[i])
          \/ lastCall.pre[image].access_mask # ShaderAccessMask(reflection[i]))
      => \E b \in BarriersOf(lastCall.recorded) :
           /\ b.image = image
           /\ b.oldLayout = lastCall.pre[image].layout
           /\ b.srcAccessMask = lastCall.pre[image].access_mask

(***************************************************************************)
(* C4: in every sequence of recording operations, the layout transitions   *)
(* a set of bindings needs are in the command stream before the dispatch   *)
(* that uses the bindings; cgpu_cmd_dispatch records no barrier and leaves *)
(* the tracked image state alone.                                          *)
(***************************************************************************)
C4_BarriersBeforeDispatch ==
  /\ \A n \in 1..Len(commands) :
       commands[n].op = "dispatch" =>
         \A i \in 1..Len(reflection) : \A image \in Images :
           BoundOnlyTo(commands[n].descriptor_set, image, i) =>
             StreamLayout(image, n - 1) = RequiredLayout(reflection[i])
  /\ lastCall.op = "dispatch" =>
       /\ BarriersOf(lastCall.recorded) = {}
       /\ lastCall.pre = iimage

\* the second half of C4 alone: what cgpu_cmd_dispatch itself does
DispatchRecordsNoBarrier ==
  lastCall.op = "dispatch" =>
    /\ BarriersOf(lastCall.recorded) = {}
    /\ lastCall.pre = iimage

\* ---- what a frame did ----
StepOps(f) == {f.steps[k].op : k \in 1..Len(f.steps)}

\* the frame made the gi call op before it called giRender
BeforeRender(f, op) ==
  \E k \in 1..Len(f.steps) : \E n \in 1..Len(f.steps) :
    k < n /\ f.steps[k].op = op /\ f.steps[n].op = "giRender"

\* a giCreateShaderCache or giCreateGeomCache of the frame returned nullptr
CreateFailed(f) ==
  \E k \in 1..Len(f.steps) :
    /\ f.steps[k].op \in {"giCreateShaderCache", "giCreateGeomCache"}
    /\ f.steps[k].cache = 0

(***************************************************************************)
(* C5: a frame that reaches the version check invalidates the framebuffer  *)
(* if at least one of the four change counters (scene state, sprim index,  *)
(* render settings, visibility) differs from the value recorded by the     *)
(* previous frame; any single one of them suffices.                        *)
(***************************************************************************)
C5_InvalidateOnAnyCounter ==
  (frame.reached /\ frame.changed \cap Counters # {}) =>
    "giInvalidateFramebuffer" \in StepOps(frame)

(***************************************************************************)
(* C6: no giRender accumulates onto samples taken before a change of a     *)
(* counter or of the AOV: the framebuffer a frame renders into is empty or *)
(* holds samples of the very scene state and AOV the frame renders, early  *)
(* returns in between included.                                            *)
(***************************************************************************)
C6_NoStaleAccumulation ==
  "giRender" \in StepOps(frame) =>
    \/ ~frame.accumulatedOnto.samples
    \/ frame.accumulatedOnto.basis = frame.basis

(***************************************************************************)
(* C7: when the creation of the new shader cache or geometry cache fails   *)
(* in a frame, the caches held before the frame are still held afterwards  *)
(* and have not been destroyed.                                            *)
(***************************************************************************)
C7_FailedRebuildKeepsCaches ==
  (/\ CreateFailed(frame)
   /\ frame.pre.shaderCache # 0
   /\ frame.pre.geomCache # 0) =>
    /\ m_shaderCache = frame.pre.shaderCache
    /\ m_geomCache = frame.pre.geomCache
    /\ frame.pre.shaderCache \notin gi.destroyed
    /\ frame.pre.geomCache \notin gi.destroyed

(***************************************************************************)
(* C8: a frame in which the visibility counter or the scene-state version  *)
(* differs from the recorded value rebuilds the geometry cache before it   *)
(* dispatches, whether or not it rebuilds the shader cache.                *)
(***************************************************************************)
C8_GeomRebuiltOnSceneOrVisibility ==
  (/\ "giRender" \in StepOps(frame)
   /\ frame.changed \cap {"scene", "vis"} # {})
  => BeforeRender(frame, "giCreateGeomCache")

(***************************************************************************)
(* C10: for every well-formed CWBVH and every ray, find_hit_closest over   *)
(* the BVH returns a hit exactly when the loop over all faces with the     *)
(* same triangle test does, and then with the same nearest t.              *)
(***************************************************************************)
C10_TraversalMatchesBruteForce ==
  (pc = "done" /\ query = "closest") =>
    LET b == brute_force_find_hit_closest(ray0) IN
    /\ (hit.face_idx # FACE_IDX_NONE) <=> (b.face_idx # FACE_IDX_NONE)
    /\ hit.face_idx # FACE_IDX_NONE => Eq(ray.tmax, b.tmax)

\* the same for builds whose min and max return the operand that is a number
\* and for rays without a zero direction component
C10_MatchesWhenNoNaN ==
  (/\ pc = "done"
   /\ query = "closest"
   /\ build.nan = "number" \/ \A a \in 1..3 : ray.dir[a] # 0) =>
    LET b == brute_force_find_hit_closest(ray0) IN
    /\ (hit.face_idx # FACE_IDX_NONE) <=> (b.face_idx # FACE_IDX_NONE)
    /\ hit.face_idx # FACE_IDX_NONE => Eq(ray.tmax, b.tmax)

\* C11: find_hit_closest compiled with TRIANGLE_POSTPONING returns what
\* find_hit_closest compiled without it returns on the same scene and ray,
\* whatever the lanes' postponement decisions were: the same hit-or-miss, the
\* same face_idx and the same t, also when several faces are hit at one t.
C11_PostponingSameResult ==
  (/\ pc = "done"
   /\ query = "closest"
   /\ build.TRIANGLE_POSTPONING
   /\ find_hit_closest(ray0).pc = "done") =>
    /\ returned = find_hit_closest(ray0).returned
    /\ hit.face_idx = find_hit_closest(ray0).hit.face_idx
    /\ Eq(ray.tmax, find_hit_closest(ray0).ray.tmax)

\* the part of C11 that the code does keep: hit-or-miss and t
C11_PostponingSameDistance ==
  (/\ pc = "done"
   /\ query = "closest"
   /\ find_hit_closest(ray0).pc = "done") =>
    /\ returned = find_hit_closest(ray0).returned
    /\ Eq(ray.tmax, find_hit_closest(ray0).ray.tmax)

\* without postponement the state machine is the run of find_hit_closest
C11_RunIsTheTraversal ==
  (pc = "done" /\ query = "closest" /\ postponed = 0) =>
    /\ find_hit_closest(ray0).pc = "done"
    /\ hit = find_hit_closest(ray0).hit
    /\ ray = find_hit_closest(ray0).ray

\* C12: in find_hit_closest and in find_hit_any, stack_size never exceeds
\* MAX_STACK_SIZE and no write to stack[stack_size] happens outside the array:
\* every push of a node group or of a postponed face group is behind a bound
\* check that raises the fatal error instead.
C12_StackWithinCapacity ==
  /\ Len(stack) <= MAX_STACK_SIZE
  /\ ~overflowed

\* the part of C12 that holds: the pushes of find_hit_closest are checked
C12_ClosestStackWithinCapacity ==
  query = "closest" => (Len(stack) <= MAX_STACK_SIZE /\ ~overflowed)

\* C13: an operation that is given a handle issued for another kind than the
\* one it expects returns the invalid-handle failure and does not resolve that
\* handle to an object, in every state of the stores.
C13_CrossKindHandleRejected ==
  \A i \in 1..Len(lastOp.args) :
    lastOp.args[i].kind \notin {"none", lastOp.expects[i]} =>
      /\ ~lastOp.ok
      /\ lastOp.err = InvalidHandle
      /\ ~lastOp.resolved[i]

\* C14: a cgpu_destroy_* call that is given a handle it already destroyed
\* returns failure, releases no native object, and leaves the stores, the
\* objects and with them every other live handle as they were.
C14_SecondDestroyFails ==
  [][(calls' # calls /\ lastOp'.second) =>
       /\ ~lastOp'.ok
       /\ ~lastOp'.released
       /\ natives' = natives
       /\ stores' = stores
       /\ objects' = objects
       /\ \A h \in natives' :
            /\ is_handle_valid(stores'[h.kind], h.handle)
            /\ objects'[h.kind][h.handle.index + 1].native = h]_vars

\* a second destroy of a buffer whose slot a newer buffer has taken over
C14_Witness ==
  /\ lastOp.op = "cgpu_destroy_buffer"
  /\ lastOp.second
  /\ ~lastOp.ok
  /\ \E h \in natives : h.kind = "buffer" /\ h.handle.index = lastOp.args[2].handle.index

\* C17: cgpu_submit_command_buffer succeeds only if the device that created
\* the command buffer, whose handle the command buffer recorded, still
\* resolves; after that device was destroyed the submit fails with the
\* invalid-handle error, whichever device handle the caller passes.
C17_SubmitNeedsCreatingDevice ==
  (lastOp.op = "cgpu_submit_command_buffer" /\ lastOp.ok) =>
    is_handle_valid(stores.device,
      objects.command_buffer[lastOp.args[2].handle.index + 1].device)

\* the part of C17 that holds: the recorded device is the creating one, and
\* destroying it leaves the command buffer's handle valid
C17_RecordsCreatingDevice ==
  (lastOp.op = "cgpu_create_command_buffer" /\ lastOp.ok) =>
    \E h \in natives :
      /\ h.kind = "command_buffer"
      /\ objects.command_buffer[h.handle.index + 1].device = lastOp.args[1].handle

RECURSIVE InfosWritten(_, _, _)
InfosWritten(ds, types, i) ==
  IF i > Len(ds) THEN 0
  ELSE (IF ds[i].descriptorType \in types THEN Len(ds[i].infos) ELSE 0)
       + InfosWritten(ds, types, i + 1)

\* C16: the entries written to each fixed-capacity scratch array of
\* cgpu_cmd_update_bindings never exceed the array's capacity; an input that
\* would overflow one yields the hardcoded-limit failure before any
\* out-of-range write.
C16_ScratchArraysWithinCapacity ==
  /\ lastCall.err # OutOfRange
  /\ InfosWritten(descriptor_set, {"STORAGE_BUFFER"}, 1) <= MAX_DESCRIPTOR_BUFFER_INFOS
  /\ InfosWritten(descriptor_set, {"STORAGE_IMAGE", "SAMPLED_IMAGE", "SAMPLER"}, 1)
       <= MAX_DESCRIPTOR_IMAGE_INFOS
  /\ Len(descriptor_set) <= MAX_WRITE_DESCRIPTOR_SETS

\* ---- reading the buffers of a written file back ----
ReadVertex(f, offset) ==
  [pos |-> <<f[offset \div 4 + 1], f[offset \div 4 + 2], f[offset \div 4 + 3]>>,
   norm |-> <<f[offset \div 4 + 5], f[offset \div 4 + 6], f[offset \div 4 + 7]>>,
   uv |-> <<f[offset \div 4 + 4], f[offset \div 4 + 8]>>]

\* C18: the written file holds vertex i (pos.x, pos.y, pos.z, uv.u, norm.x,
\* norm.y, norm.z, uv.v) at vertex_off + 32 * i for every i below the vertex
\* count, whatever the count, and the faces unchanged at face_off.  Here for
\* the vertex loop alone: every vertex the loop wrote lies at its offset, and
\* once the loop is through, every vertex is where it was written.
C18_VerticesAtTheirOffsets ==
  /\ \A w \in loop_written :
       w.at = vertex_buf_offset(loop_scene) \div 4 + 8 * w.i
  /\ \A i \in FollowedIterations :
       i <= loop_i =>
         [at |-> vertex_buf_offset(loop_scene) \div 4 + 8 * i, i |-> i]
           \in loop_written

\* the part of C18 that holds: scenes whose vertex buffer stays below 4 GiB
\* are read back from the file as they were
C18_SmallScenesReadBack ==
  file # <<>> =>
    /\ \A i \in 0..(scene.vertex_count - 1) :
         ReadVertex(file, Header(file).vertex_off + 32 * i) = scene.vertices[i + 1]
    /\ SubSeq(file, Header(file).face_off \div 4 + 1,
              (Header(file).face_off + Header(file).face_size) \div 4) = scene.faces

\* C19: in every written file the reserved header bytes 136 through 255 are
\* all zero.
C19_ReservedBytesZero ==
  file # <<>> => \A k \in (136 \div 4 + 1)..(header_size \div 4) : file[k] = 0

\* C20: find_hit_any returns true exactly when find_hit_closest returns true
\* on the same scene and ray; find_hit_closest only ever lowers ray.tmax; and
\* when find_hit_closest returns, hit.face_idx is the sentinel 0xFFFFFFFF
\* exactly when it returns false.
C20_AnyAgreesWithClosest ==
  /\ (pc = "done" /\ query = "any" /\ find_hit_closest(ray0).pc = "done") =>
       returned = find_hit_closest(ray0).returned
  /\ query = "closest" => Le(ray.tmax, ray0.tmax)
  /\ (pc = "done" /\ query = "closest") =>
       (hit.face_idx = FACE_IDX_NONE <=> ~returned)

\* the same, for the invocations of find_hit_any whose stack stayed in range
C20_AnyAgreesWithinTheStack ==
  /\ (pc = "done" /\ query = "any" /\ ~overflowed
        /\ find_hit_closest(ray0).pc = "done") =>
       returned = find_hit_closest(ray0).returned
  /\ query = "closest" => Le(ray.tmax, ray0.tmax)
  /\ (pc = "done" /\ query = "closest") =>
       (hit.face_idx = FACE_IDX_NONE <=> ~returned)

(***************************************************************************)
(* C21: a buffer or an image has at most one outstanding mapping: between  *)
(* a successful map and the matching unmap, a second map of the same       *)
(* resource does not succeed.                                              *)
(***************************************************************************)
C21_MappingExclusive ==
  \A allocation \in DOMAIN map_count : map_count[allocation] <= 1

StepRank(op) ==
  CASE op = "giInvalidateFramebuffer" -> 1
    [] op \in {"giDestroyShaderCache", "giCreateShaderCache"} -> 2
    [] op \in {"giDestroyGeomCache", "giCreateGeomCache"} -> 3
    [] op \in {"Map", "giRender"} -> 4
    [] op = "Unmap" -> 5

C26_GeomCacheOfItsShaderCache ==
  \A n \in 1..Len(frame.steps) :
    frame.steps[n].op = "giRender" =>
      /\ gi.caches[frame.steps[n].geomCache].shaderCache = frame.steps[n].shaderCache
      /\ frame.steps[n].shaderCache \notin gi.destroyed

(***************************************************************************)
(* C24: for any sequence of create-handle, free-handle and get calls, the  *)
(* object_count of the slab never decreases, and whenever                  *)
(* resource_store_get returns true the slot index of the handle is below   *)
(* object_count after the call: the object lies inside the slab.           *)
(***************************************************************************)
C24_ObjectInsideSlab ==
  /\ object_count >= InitialCapacity
  /\ lastGet.ok => lastGet.index < object_count

\* the first half of C24 alone: no call lowers object_count
C24_SlabNeverShrinks == [][object_count' >= object_count]_vars

\* every image whose tracked state the latest call changed has a barrier
\* among the commands the call recorded
C25_ChangeOnlyWithBarrier ==
  \A image \in Images :
    iimage[image] # lastCall.pre[image] =>
      \E b \in BarriersOf(lastCall.recorded) : b.image = image

(***************************************************************************)
(* C25: the tracked layout and access mask of an image change only         *)
(* together with a barrier that is recorded into the command buffer; when  *)
(* cgpu_cmd_update_bindings returns false, no image's tracked layout or    *)
(* access mask differs from its value before the call.                     *)
(***************************************************************************)
C25_TrackedStateFollowsBarriers ==
  /\ lastCall.op # "none" => C25_ChangeOnlyWithBarrier
  /\ (lastCall.op = "update_bindings" /\ ~lastCall.ok) => iimage = lastCall.pre

(***************************************************************************)
(* C27: a cgpu_create_* call that returns false after it allocated its     *)
(* handle has freed the handle again: a failed create leaves the number of *)
(* allocated handles of every store as it was before the call.             *)
(***************************************************************************)
C27_FailedCreateFreesHandle ==
  (/\ lastOp.op \in {"cgpu_create_device", "cgpu_create_buffer",
                     "cgpu_create_image", "cgpu_create_command_buffer"}
   /\ ~lastOp.ok)
  => \A k \in ResKinds : Allocated(stores[k]) = lastOp.allocated[k]

\* the same for the devices, buffers and images alone
C27_OtherCreatesFreeHandle ==
  (/\ lastOp.op \in {"cgpu_create_device", "cgpu_create_buffer", "cgpu_create_image"}
   /\ ~lastOp.ok)
  => \A k \in ResKinds : Allocated(stores[k]) = lastOp.allocated[k]

\* the queries offset .. offset + count - 1 all exist in the pool
WithinPool(offset, count) ==
  /\ ~carry_uint32(offset, count)
  /\ ~ge_uint32(add_uint32(offset, count), CGPU_MAX_TIMESTAMP_QUERIES + 1)

(***************************************************************************)
(* C30: for all 32-bit offset and count, cgpu_cmd_copy_timestamps with     *)
(* valid handles succeeds exactly when [offset, offset + count) lies       *)
(* within the CGPU_MAX_TIMESTAMP_QUERIES queries of the pool; a request    *)
(* that ends at the last query is accepted, one that reaches past the pool *)
(* (offset + count above 2^32 included) fails with the hardcoded limit.    *)
(***************************************************************************)
C30_CopyTimestampsRange ==
  (/\ lastCall.op = "copy_timestamps"
   /\ lastTimestamps.handles
   /\ lastTimestamps.count # Uint32(0, 0)) =>
    /\ lastCall.ok <=> WithinPool(lastTimestamps.offset, lastTimestamps.count)
    /\ ~lastCall.ok => lastCall.err = "hardcoded limit reached"

\* the image the latest cgpu_cmd_copy_buffer_to_image copied to
CopiedImage == lastCall.recorded[Len(lastCall.recorded)].image

(***************************************************************************)
(* C29: after cgpu_cmd_copy_buffer_to_image returns true the tracked       *)
(* layout of the image is GENERAL; if it was not GENERAL before the call,  *)
(* exactly one image barrier from the layout and access mask tracked       *)
(* before to GENERAL is recorded before the copy command; if it was        *)
(* GENERAL already, no barrier is recorded and the tracked layout and      *)
(* access mask are unchanged.                                              *)
(***************************************************************************)
C29_CopyLeavesImageGeneral ==
  (lastCall.op = "copy_buffer_to_image" /\ lastCall.ok) =>
    LET recorded == lastCall.recorded
        before == lastCall.pre[CopiedImage]
    IN  /\ recorded[Len(recorded)].op = "copy_buffer_to_image"
        /\ iimage[CopiedImage].layout = "GENERAL"
        /\ IF before.layout # "GENERAL"
           THEN /\ Len(recorded) = 2
                /\ recorded[1].op = "barrier"
                /\ Len(recorded[1].barriers) = 1
                /\ recorded[1].barriers[1].image = CopiedImage
                /\ recorded[1].barriers[1].oldLayout = before.layout
                /\ recorded[1].barriers[1].srcAccessMask = before.access_mask
                /\ recorded[1].barriers[1].newLayout = "GENERAL"
           ELSE /\ Len(recorded) = 1
                /\ iimage[CopiedImage] = before

\* a copy to an image an earlier update of bindings left as SHADER_READ_ONLY,
\* and a copy to an image that was GENERAL already
C29_Witness ==
  /\ lastCall.op = "copy_buffer_to_image"
  /\ lastCall.ok
  /\ lastCall.pre[CopiedImage].layout \in {"SHADER_READ_ONLY_OPTIMAL"}
  /\ Len(commands) = 3

\* a copy to an image that was GENERAL already
C29_WitnessGeneral ==
  /\ lastCall.op = "copy_buffer_to_image"
  /\ lastCall.ok
  /\ lastCall.pre[CopiedImage].layout = "GENERAL"

\* C28: find_hit_closest and find_hit_any run to their return, and every face
\* group the postponement pushed back onto the stack is popped and consumed
\* again: when the loop has run out of groups (any return of find_hit_closest,
\* and the return of find_hit_any without a hit), as many postponed face
\* groups were popped as were pushed
C28_PostponedGroupsConsumed ==
  (pc = "done" /\ ~(query = "any" /\ returned)) => resumed = postponed

====
